---- MODULE Spec2Model ----
(***************************************************************************)
(* Model of the session lifecycle and request-resilience engine of         *)
(* jskit-auth-client: the circuit breaker                                  *)
(* and the rate limiter (config/auth.js), the user-state store's          *)
(* setSession/fetchProfile/signOut (stores/userState.js), the providers'   *)
(* handleTokenExpiry/signOut, and the axios interceptor's retry policy and *)
(* token-refresh queue (auth/interceptor.js).                              *)
(*                                                                         *)
(* Scheduling model: JavaScript's event loop.  One action of this module  *)
(* is one macrotask (a network response, a timer, a call from the         *)
(* application) together with the whole chain of promise continuations     *)
(* (microtasks) it triggers, up to the next point where the code awaits a  *)
(* network response or a timer.                                            *)
(***************************************************************************)
EXTENDS Integers, Sequences, FiniteSets, TLC

(***************************************************************************)
(* Program constants                                                       *)
(***************************************************************************)
\* authConfig.errorHandling.recovery.circuitBreaker
CBThreshold == 5
CBTimeout == 60000
CBHalfOpenRequests == 3

\* circuitBreakers = { auth, tokenRefresh, profile }
CBNames == {"auth", "tokenRefresh", "profile"}

\* the providers registered by the three provider modules
Providers == {"local", "supabase", "google"}

\* INTERCEPTOR_CONFIG
maxRetries == 3
networkErrorRetries == 2
retryableStatusCodes == {408, 429, 500, 502, 503, 504}
retryDelay == 1000
backoffMultiplier == 2

\* authConfig.timeouts.maxRetryDelay
maxRetryDelay == 30000
\* authConfig.retry.maxAttempts
maxAttempts == 3
\* fetchProfile: `sessionHealth.failureCount >= 3`
ProfileFailureLimit == 3

(***************************************************************************)
(* Bounds of the model                                                     *)
(***************************************************************************)
\* number of clock advances
MaxTicks == 4
\* operations running inside one breaker at the same time
MaxInflight == 2
\* cap on a breaker's failure counter
MaxFailures == 7

\* outbound requests
NReq == 2
\* sessionHealth.failureCount at which no further fetchProfile() is started
MaxFailureCount == 3
\* clock advances while the store is exercised
MaxSTTicks == 2
\* checkRateLimit calls in one behaviour
MaxRLCalls == 7
\* clock advances between checkRateLimit calls
MaxRLTicks == 2
\* checkRateLimit calls during which the storage throws
MaxRLFaults == 1
\* initialize, startAnonymousSession and convertAnonymousAccount calls in one
\* behaviour
MaxProvOps == 3
\* clock advances between those calls
MaxINTicks == 1
\* setSession, snapshot and restore calls in one behaviour
MaxSSOps == 5
\* requests that subscribe to one refresh
MaxQueued == 3
\* refreshes in one behaviour of the refresh queue
MaxCycles == 2
\* withRetry calls in one behaviour
MaxRetryRuns == 2
\* clock advances between withRetry calls
MaxRetryTicks == 1
Reqs == 1..NReq
\* access tokens: two distinct values tell a refreshed token from the old one
Tokens == {1, 2}

\* Date.now() is milliseconds since 1970: far more than any timeout.
NowInit == CBTimeout + 1
\* the clock advances by one millisecond or by a whole breaker timeout
TickSteps == {1, CBTimeout}

\* by how much Date.now() differs between two checkRateLimit calls: together
\* the two steps make the 'login' window of 300000 ms exactly
RLSteps == {1, 299999}

\* lastFailureTime = null; in `Date.now() - null` null counts as 0
Null == 0

VARIABLES
  now,          \* Date.now()
  ticks,        \* clock advances so far
  cbEnabled,    \* config.enabled of the breakers
  cb,           \* circuitBreakers: name -> [state, failures, lastFailureTime, successCount]
  cbInflight,   \* name -> number of wrapped operations awaited inside execute()
  failRun,      \* history: name -> consecutive failed operations seen (saturates at threshold)
  runFromClosed,\* history: name -> the current run of failures began in state closed
  hoRun,        \* history: name -> consecutive successes seen since entering half-open
  cbLast,       \* history: the last breaker event
  session,      \* userState store: normalizedSession
  profile,      \* userState store: profile (Null, or the profile loaded for a token)
  linkedProviders, \* userState store: linkedProviders, as the set of its keys
  authorization,\* axios.defaults.headers.common['Authorization']: the token in it, 0 = absent
  errorType,    \* userState store: errorState.errorType ("none": hasError is false)
  failureCount, \* userState store: sessionHealth.failureCount
  fetch,        \* the fetchProfile() call under way: where it stands
  stLast,       \* history: the operation that acted last on the store followed on its own
  isRefreshing, \* interceptor.js: isRefreshing
  refreshSubscribers, \* interceptor.js: refreshSubscribers, as the requests whose callbacks it holds
  req,          \* the outbound requests: where each one's promise chain stands
  call,         \* request -> the provider whose handleTokenExpiry it invoked and which has not returned
  appSignOut,   \* the provider whose signOut an application-level store.signOut() awaits
  dupCall,      \* history: handleTokenExpiry was invoked while a refresh was in progress
  staleReplay,  \* history: a request was replayed with a header other than the store's token
  authMeRefreshed, \* history: a 401 from /auth/me was handed to handleTokenRefresh
  rlEnabled,    \* authConfig.rateLimiting.enabled
  rlStore,      \* localStorage: action -> the timestamps under rate_limit_<action>
  rlHist,       \* history: action -> the times of all calls checkRateLimit allowed
  rlLast,       \* history: the last checkRateLimit call
  rlCalls,      \* history: number of checkRateLimit calls so far
  rlFaulted,    \* history: number of calls during which the storage threw
  defaultProvider,    \* authConfig.defaultProvider
  allowAnonymous,     \* authConfig.allowAnonymous
  autoStartAnonymous, \* authConfig.autoStartAnonymous
  registry,     \* Object.keys(authProviders): the provider names in registration order
  storedSession, \* provider -> what its getStoredSession() yields
  snapshot,     \* the linking session snapshot the application holds
  restoring,    \* where the restoreLinkingSessionSnapshot() call under way stands
  rqLog,        \* the subscriptions to the refresh and the replays, as they happened
  retryRun,     \* the withRetry() call followed on its own: where it stands and what it did
  boot,         \* where the initialize() call under way stands
  provCalls,    \* history: the provider methods these calls invoked, in order
  pvLast        \* history: the last of these operations and what it did

cbVars == <<now, ticks, cbEnabled, cb, cbInflight, failRun, runFromClosed, hoRun, cbLast>>

stVars == <<profile, linkedProviders, authorization, errorType, failureCount, fetch, stLast>>

icVars == <<session, stVars, isRefreshing, refreshSubscribers, req, call, appSignOut, dupCall, staleReplay,
           authMeRefreshed, rqLog, retryRun>>

rlVars == <<rlEnabled, rlStore, rlHist, rlLast, rlCalls, rlFaulted>>

pvVars == <<defaultProvider, allowAnonymous, autoStartAnonymous, registry, storedSession, snapshot,
           restoring, boot, provCalls, pvLast>>

\* the configuration and the environment of the provider-aware operations
pvConfig == <<defaultProvider, allowAnonymous, autoStartAnonymous, registry, storedSession>>

vars == <<cbVars, icVars, rlVars, pvVars>>

(***************************************************************************)
(* CircuitBreaker                                                          *)
(***************************************************************************)
\* constructor() and reset(): the same four assignments
CBFresh == [state |-> "closed", failures |-> 0, lastFailureTime |-> Null, successCount |-> 0]

NoEvent ==
  [ev |-> "none", name |-> "auth", preState |-> "closed", denied |-> FALSE,
   invoked |-> FALSE, preSeen |-> FALSE, preWithin |-> FALSE]

\* execute(), lines 281-289 with `elapsed >= timeout`: the mutant of CBGate
CBGateEarly(b, t) ==
  IF b.state = "open"
  THEN IF t - b.lastFailureTime >= CBTimeout
       THEN [allowed |-> TRUE, b |-> [b EXCEPT !.state = "half-open", !.successCount = 0]]
       ELSE [allowed |-> FALSE, b |-> b]
  ELSE [allowed |-> TRUE, b |-> b]

\* execute(), lines 281-289: the check made before the operation is invoked
CBGate(b, t) ==
  IF b.state = "open"
  THEN IF t - b.lastFailureTime > CBTimeout
       THEN [allowed |-> TRUE, b |-> [b EXCEPT !.state = "half-open", !.successCount = 0]]
       ELSE [allowed |-> FALSE, b |-> b]
  ELSE [allowed |-> TRUE, b |-> b]

\* execute(), lines 295-303 with `successCount > halfOpenRequests`: the mutant of CBOnSuccess
CBOnSuccessLate(b) ==
  IF b.state = "half-open"
  THEN IF b.successCount + 1 > CBHalfOpenRequests
       THEN [b EXCEPT !.successCount = @ + 1, !.state = "closed", !.failures = 0]
       ELSE [b EXCEPT !.successCount = @ + 1]
  ELSE IF b.state = "closed"
       THEN [b EXCEPT !.failures = IF @ - 1 > 0 THEN @ - 1 ELSE 0]
       ELSE b

\* execute(), lines 295-303 with a success in closed zeroing the count
CBOnSuccessClears(b) ==
  IF b.state = "half-open"
  THEN IF b.successCount + 1 >= CBHalfOpenRequests
       THEN [b EXCEPT !.successCount = @ + 1, !.state = "closed", !.failures = 0]
       ELSE [b EXCEPT !.successCount = @ + 1]
  ELSE IF b.state = "closed"
       THEN [b EXCEPT !.failures = 0]
       ELSE b

\* execute(), lines 295-303 with the test of line 301 lost: a success lowers
\* the count in the open state too
CBOnSuccessAnyState(b) ==
  IF b.state = "half-open"
  THEN IF b.successCount + 1 >= CBHalfOpenRequests
       THEN [b EXCEPT !.successCount = @ + 1, !.state = "closed", !.failures = 0]
       ELSE [b EXCEPT !.successCount = @ + 1]
  ELSE [b EXCEPT !.failures = IF @ - 1 > 0 THEN @ - 1 ELSE 0]

\* execute(), lines 295-303: the wrapped operation resolved
CBOnSuccess(b) ==
  IF b.state = "half-open"
  THEN IF b.successCount + 1 >= CBHalfOpenRequests
       THEN [b EXCEPT !.successCount = @ + 1, !.state = "closed", !.failures = 0]
       ELSE [b EXCEPT !.successCount = @ + 1]
  ELSE IF b.state = "closed"
       THEN [b EXCEPT !.failures = IF @ - 1 > 0 THEN @ - 1 ELSE 0]
       ELSE b

\* execute(), lines 306-316 with line 309 skipped in half-open: the mutant of CBOnFailure
CBOnFailureStale(b, t) ==
  LET f == b.failures + 1
  IN [b EXCEPT !.failures = f,
               !.lastFailureTime = IF b.state = "half-open" THEN @ ELSE t,
               !.state = IF f >= CBThreshold THEN "open" ELSE @]

\* execute(), lines 306-316: the wrapped operation rejected at time t
CBOnFailure(b, t) ==
  LET f == b.failures + 1
  IN [b EXCEPT !.failures = f,
               !.lastFailureTime = t,
               !.state = IF f >= CBThreshold THEN "open" ELSE @]

\* The breakers with their history, as one value: the operators below map a
\* value of this shape to the value after one step of execute() or reset().
World ==
  [cb |-> cb, inflight |-> cbInflight, failRun |-> failRun,
   runFromClosed |-> runFromClosed, hoRun |-> hoRun, last |-> cbLast]

SetWorld(w) ==
  /\ cb' = w.cb
  /\ cbInflight' = w.inflight
  /\ failRun' = w.failRun
  /\ runFromClosed' = w.runFromClosed
  /\ hoRun' = w.hoRun
  /\ cbLast' = w.last

\* execute(fn) up to `await fn()`, at time t: pass-through when disabled
\* (line 276); otherwise the open check, and fn() is invoked unless it threw
WCall(w, n, t) ==
  IF ~cbEnabled
  THEN [w EXCEPT !.last = [NoEvent EXCEPT !.ev = "call", !.name = n, !.invoked = TRUE,
                                          !.preState = w.cb[n].state]]
  ELSE LET g == CBGate(w.cb[n], t)
       IN [w EXCEPT
             !.cb[n] = g.b,
             !.inflight[n] = IF g.allowed THEN @ + 1 ELSE @,
             !.hoRun[n] = IF g.b.state = "half-open" /\ w.cb[n].state = "open" THEN 0 ELSE @,
             !.last = [ev |-> "call", name |-> n, preState |-> w.cb[n].state,
                       denied |-> ~g.allowed, invoked |-> g.allowed,
                       preSeen |-> (w.failRun[n] >= CBThreshold /\ w.runFromClosed[n]),
                       preWithin |-> (t - w.cb[n].lastFailureTime <= CBTimeout)]]

\* execute() with the open check of lines 281-289 lost: fn is always invoked
WAllowsAlways(w, n, t) == TRUE

\* whether execute(fn) called now on breaker n invokes fn
WAllows(w, n, t) == ~cbEnabled \/ CBGate(w.cb[n], t).allowed

\* `await fn()` resolved inside execute()
WSuccess(w, n) ==
  [w EXCEPT
     !.cb[n] = CBOnSuccess(@),
     !.inflight[n] = @ - 1,
     !.failRun[n] = 0,
     !.runFromClosed[n] = FALSE,
     !.hoRun[n] = IF w.cb[n].state = "half-open" THEN @ + 1 ELSE @,
     !.last = [NoEvent EXCEPT !.ev = "success", !.name = n, !.preState = w.cb[n].state]]

\* `await fn()` rejected inside execute(), at time t
WFailure(w, n, t) ==
  [w EXCEPT
     !.cb[n] = CBOnFailure(@, t),
     !.inflight[n] = @ - 1,
     !.failRun[n] = IF @ < CBThreshold THEN @ + 1 ELSE @,
     !.runFromClosed[n] = IF w.failRun[n] = 0 THEN w.cb[n].state = "closed" ELSE @,
     !.hoRun[n] = 0,
     !.last = [NoEvent EXCEPT !.ev = "failure", !.name = n, !.preState = w.cb[n].state]]

\* reset()
WReset(w, n) ==
  [w EXCEPT
     !.cb[n] = CBFresh,
     !.failRun[n] = 0,
     !.runFromClosed[n] = FALSE,
     !.hoRun[n] = 0,
     !.last = [NoEvent EXCEPT !.ev = "reset", !.name = n, !.preState = w.cb[n].state]]

\* execute(fn) is called on breaker n
CBExecute(n) ==
  /\ cbInflight[n] < MaxInflight
  /\ WAllows(World, n, now) => cb[n].failures + cbInflight[n] < MaxFailures
  /\ SetWorld(IF cbEnabled THEN WCall(World, n, now)
              ELSE [WCall(World, n, now) EXCEPT !.inflight[n] = @ + 1])
  /\ UNCHANGED <<now, ticks, cbEnabled, rlVars, pvVars, rqLog, retryRun>>

\* the wrapped operation resolves
CBOpSucceeds(n) ==
  /\ cbInflight[n] > 0
  /\ SetWorld(IF cbEnabled THEN WSuccess(World, n)
              ELSE [World EXCEPT !.inflight[n] = @ - 1])
  /\ UNCHANGED <<now, ticks, cbEnabled, rlVars, pvVars, rqLog, retryRun>>

\* the wrapped operation rejects
CBOpFails(n) ==
  /\ cbInflight[n] > 0
  /\ SetWorld(IF cbEnabled THEN WFailure(World, n, now)
              ELSE [World EXCEPT !.inflight[n] = @ - 1])
  /\ UNCHANGED <<now, ticks, cbEnabled, rlVars, pvVars, rqLog, retryRun>>

\* reset() is called on breaker n
CBReset(n) ==
  /\ SetWorld(WReset(World, n))
  /\ UNCHANGED <<now, ticks, cbEnabled, rlVars, pvVars, rqLog, retryRun>>

\* time passes
Tick ==
  /\ ticks < MaxTicks
  /\ \E d \in TickSteps : now' = now + d
  /\ ticks' = ticks + 1
  /\ UNCHANGED <<rlVars, pvVars, cbEnabled, cb, cbInflight, failRun, runFromClosed, hoRun, cbLast>>

(***************************************************************************)
(* userState store: the session, setSession and signOut                    *)
(***************************************************************************)
\* normalizedSession.value = null; token and currentProvider are then undefined
NoSession == [access_token |-> 0, provider |-> "none", isAnonymous |-> FALSE]

\* provider.normalizeSession(raw) for a raw session carrying access token t:
\* the local provider's sessions are always anonymous
NormalizeSession(p, t) == [access_token |-> t, provider |-> p, isAnonymous |-> (p = "local")]

\* signOut(), line 485, with the assignment lost: the mutant of SignedOutSession
SignedOutSessionKept(sess) == sess

\* signOut(), lines 485-497: the local state after it
SignedOutSession(sess) == NoSession

\* signOut() with line 500 lost: no breaker is reset
WResetNone(w) == w

\* signOut(), line 500: Object.values(circuitBreakers).forEach(cb => cb.reset())
WResetAll(w) == WReset(WReset(WReset(w, "auth"), "tokenRefresh"), "profile")

\* the breaker's bookkeeping when the operation awaited in execute() settles
WDone(w, n, ok, t) ==
  IF ~cbEnabled THEN w ELSE IF ok THEN WSuccess(w, n) ELSE WFailure(w, n, t)

\* signOut() up to its first wait for the network.  The provider's signOut runs
\* under withRetry(..., 'auth', 1), that is circuitBreakers.auth.execute: a
\* refused call throws and is swallowed (lines 478-481).  local.signOut only
\* touches localStorage; google.signOut posts to the backend only when the
\* refresh_csrf cookie is there (csrf); supabase.signOut always does.
\* pending = the provider whose network call signOut() now awaits, or "none"
\* when signOut() ran to its end.
SignOutStart(sess, w, csrf) ==
  LET p == sess.provider
  IN IF p = "none"
     THEN [pending |-> "none", session |-> SignedOutSession(sess), w |-> WResetAll(w),
           note |-> "no provider"]
     ELSE IF ~WAllows(w, "auth", now)
     THEN [pending |-> "none", session |-> SignedOutSession(sess),
           w |-> WResetAll(WCall(w, "auth", now)), note |-> "breaker refused"]
     ELSE IF p = "local" \/ (p = "google" /\ ~csrf)
     THEN [pending |-> "none", session |-> SignedOutSession(sess),
           w |-> WResetAll(WDone(WCall(w, "auth", now), "auth", TRUE, now)),
           note |-> "provider ok"]
     ELSE [pending |-> p, session |-> sess, w |-> WCall(w, "auth", now), note |-> "awaits"]

\* signOut() from the provider's answer (ok, or the call threw) to its end
SignOutEnd(sess, w, ok) ==
  [session |-> SignedOutSession(sess), w |-> WResetAll(WDone(w, "auth", ok, now)),
   note |-> IF ok THEN "provider ok" ELSE "provider threw"]

\* no fetchProfile() is under way
NoFetch == [pc |-> "none", attempt |-> 0, so |-> "none"]

\* the last store operation: which one, what it returned, how its provider
\* call went, and whether a profile was loaded when it acted
Did(op, ok, note) == [op |-> op, ok |-> ok, note |-> note, had |-> profile # Null]

\* clearError()
NoErrorType == "none"

\* setSession(raw, p) for a session of a registered provider, lines 203-251,
\* on the rest of the store: the default Authorization header carries the
\* token (or is deleted when there is none), the session health is reset
StoreAdoptCore(sess) ==
  /\ authorization' = sess.access_token
  /\ errorType' = NoErrorType
  /\ failureCount' = 0
  /\ UNCHANGED <<profile, linkedProviders, fetch>>

\* setSession(raw, p) called by a provider's handleTokenExpiry or by a login
\* widget while the interceptor is followed
StoreAdopt(sess) ==
  /\ StoreAdoptCore(sess)
  /\ UNCHANGED stLast

\* signOut(), line 486, with the assignment lost
SignedOutProfileKept(p) == p

\* signOut(), line 486: profile.value = null
SignedOutProfile(p) == Null

\* signOut() on the rest of the store.  While it awaits the provider
\* (pending) only clearError() has run; at its end, lines 486-497, profile
\* and linkedProviders are cleared, the default headers deleted and the
\* session health reset, and it returns true.
StoreSignOutCore(pending, fc) ==
  IF pending = "none"
  THEN /\ profile' = SignedOutProfile(profile)
       /\ linkedProviders' = {}
       /\ authorization' = 0
       /\ errorType' = NoErrorType
       /\ failureCount' = 0
  ELSE /\ errorType' = NoErrorType
       /\ failureCount' = fc
       /\ UNCHANGED <<profile, linkedProviders, authorization>>

\* what signOut() has done when it stands at `so`
SignOutDid(so) ==
  IF so.pending = "none" THEN Did("signOut", TRUE, so.note)
  ELSE Did("signOut awaits", TRUE, so.note)

\* signOut() called while the interceptor is followed: no fetchProfile() is
\* part of it
StoreSignOut(pending) ==
  /\ StoreSignOutCore(pending, failureCount)
  /\ UNCHANGED <<fetch, stLast>>

(***************************************************************************)
(* config/auth.js: checkRateLimit                                          *)
(***************************************************************************)
\* authConfig.rateLimiting.requests
RateLimits ==
  [login         |-> [max |-> 5,  window |-> 300000],
   signup        |-> [max |-> 3,  window |-> 600000],
   passwordReset |-> [max |-> 3,  window |-> 3600000],
   tokenRefresh  |-> [max |-> 10, window |-> 60000]]

\* the actions the rate limiter is asked about: two configured ones and
\* 'profile', which fetchProfile passes and the configuration does not list
RLActions == {"login", "signup", "profile"}

\* what the storage does during one call: nothing wrong, getItem/JSON.parse
\* throws, or setItem throws
RLFaults == {"none", "read", "write"}

\* data.filter(time => now - time < limits.window), wrongly keeping the entry
\* that is exactly one window old
RecentInclusive(data, t, window) == SelectSeq(data, LAMBDA time : t - time <= window)

\* data.filter(time => now - time < limits.window)
Recent(data, t, window) == SelectSeq(data, LAMBDA time : t - time < window)

\* the catch block returning false
CatchDenies == FALSE

\* catch (error) { ...; return true }
CatchAllows == TRUE

\* one run of checkRateLimit(action) at time t over the stored list `data`:
\* the value returned, the list stored afterwards, whether the storage was
\* used, and whether it threw
RateLimitOutcome(action, enabled, data, t, fault) ==
  IF ~enabled \/ action \notin DOMAIN RateLimits
  THEN [allowed |-> TRUE, data |-> data, touched |-> FALSE, threw |-> FALSE]
  ELSE LET limits == RateLimits[action]
           recent == Recent(data, t, limits.window)
       IN IF fault = "read"
          THEN [allowed |-> CatchAllows, data |-> data, touched |-> TRUE, threw |-> TRUE]
          ELSE IF Len(recent) >= limits.max
          THEN [allowed |-> FALSE, data |-> data, touched |-> TRUE, threw |-> FALSE]
          ELSE IF fault = "write"
          THEN [allowed |-> CatchAllows, data |-> data, touched |-> TRUE, threw |-> TRUE]
          ELSE [allowed |-> TRUE, data |-> Append(recent, t), touched |-> TRUE, threw |-> FALSE]

NoRLCall == [action |-> "none", allowed |-> TRUE, touched |-> FALSE, threw |-> FALSE, stored |-> FALSE]

\* checkRateLimit(action). One behaviour asks about one action: each action
\* has its own key `rate_limit_${action}`, and no call reads another's key.
checkRateLimit(action, fault) ==
  /\ rlCalls < MaxRLCalls
  /\ rlLast.action \in {"none", action}
  /\ fault # "none" => rlFaulted < MaxRLFaults
  /\ LET o == RateLimitOutcome(action, rlEnabled, rlStore[action], now, fault)
     IN /\ rlStore' = [rlStore EXCEPT ![action] = o.data]
        /\ rlHist' = IF o.allowed THEN [rlHist EXCEPT ![action] = Append(@, now)] ELSE rlHist
        /\ rlLast' = [action |-> action, allowed |-> o.allowed, touched |-> o.touched,
                      threw |-> o.threw, stored |-> o.data # rlStore[action]]
        /\ rlFaulted' = IF o.threw THEN rlFaulted + 1 ELSE rlFaulted
  /\ rlCalls' = rlCalls + 1
  /\ UNCHANGED <<rlEnabled, cbVars, icVars, pvVars>>

\* Date.now() moves on between two calls
RLTick ==
  /\ ticks < MaxRLTicks
  /\ \E d \in RLSteps : now' = now + d
  /\ ticks' = ticks + 1
  /\ UNCHANGED <<cbEnabled, cb, cbInflight, failRun, runFromClosed, hoRun, cbLast>>
  /\ UNCHANGED <<icVars, pvVars, rlEnabled, rlStore, rlHist, rlLast, rlCalls, rlFaulted>>

\* nothing under any rate_limit_ key, no call made yet
RLFresh ==
  /\ rlStore = [a \in RLActions |-> <<>>]
  /\ rlHist = [a \in RLActions |-> <<>>]
  /\ rlLast = NoRLCall
  /\ rlCalls = 0
  /\ rlFaulted = 0

\* the rate limiter as configured and not yet used
RLIdle ==
  /\ rlEnabled = TRUE
  /\ RLFresh

(***************************************************************************)
(* interceptor.js: retry policy                                            *)
(***************************************************************************)
\* an axios error: whether a response came, its status, whether the error is
\* a timeout (code ECONNABORTED or 'timeout' in the message), config._noRetry
\* error.response.headers['retry-after']: absent, a number of seconds, or an
\* HTTP date (v: the seconds, or the date's time in ms)
NoRetryAfter == [form |-> "none", v |-> 0]

HttpError(st) ==
  [hasResponse |-> TRUE, status |-> st, timeoutLike |-> FALSE, noRetry |-> FALSE,
   retryAfter |-> NoRetryAfter]

\* a failure without a response: a timeout (timeoutLike) or a network error
NoResponseError(timeoutLike) ==
  [hasResponse |-> FALSE, status |-> 0, timeoutLike |-> timeoutLike, noRetry |-> FALSE,
   retryAfter |-> NoRetryAfter]

\* no error seen yet
NoError == NoResponseError(FALSE)

categorizeError(e) ==
  IF ~e.hasResponse
  THEN IF e.timeoutLike THEN "timeout_error" ELSE "network_error"
  ELSE IF e.status = 401 \/ e.status = 403 THEN "auth_error"
  ELSE IF e.status = 429 THEN "rate_limit_error"
  ELSE IF e.status >= 400 /\ e.status < 500 THEN "client_error"
  ELSE IF e.status >= 500 THEN "server_error"
  ELSE "unknown_error"

\* shouldRetry with `retryCount > maxRetries` at line 209: the mutant of shouldRetry
shouldRetryLate(e, retryCount) ==
  IF retryCount > maxRetries THEN FALSE
  ELSE IF e.noRetry THEN FALSE
  ELSE LET c == categorizeError(e)
       IN IF c = "network_error" THEN retryCount < networkErrorRetries
          ELSE IF c = "timeout_error" THEN TRUE
          ELSE IF c = "server_error" THEN e.status \in retryableStatusCodes
          ELSE IF c = "rate_limit_error" THEN TRUE
          ELSE FALSE

\* shouldRetry with line 228 returning true: the mutant of shouldRetry for the
\* server category
shouldRetryAnyServer(e, retryCount) ==
  IF retryCount >= maxRetries THEN FALSE
  ELSE IF e.noRetry THEN FALSE
  ELSE LET c == categorizeError(e)
       IN IF c = "network_error" THEN retryCount < networkErrorRetries
          ELSE IF c = "timeout_error" THEN TRUE
          ELSE IF c = "server_error" THEN TRUE
          ELSE IF c = "rate_limit_error" THEN TRUE
          ELSE FALSE

\* shouldRetry, lines 207-239
shouldRetry(e, retryCount) ==
  IF retryCount >= maxRetries THEN FALSE
  ELSE IF e.noRetry THEN FALSE
  ELSE LET c == categorizeError(e)
       IN IF c = "network_error" THEN retryCount < networkErrorRetries
          ELSE IF c = "timeout_error" THEN TRUE
          ELSE IF c = "server_error" THEN e.status \in retryableStatusCodes
          ELSE IF c = "rate_limit_error" THEN TRUE
          ELSE FALSE

\* calculateRetryDelay with the exponent counting down: the mutant of calculateRetryDelay
calculateRetryDelayInverted(retryCount, jitter) ==
  retryDelay * backoffMultiplier ^ (maxRetries - retryCount) + jitter

\* calculateRetryDelay, lines 96-99, with Math.random() * 200 = jitter
calculateRetryDelay(retryCount, jitter) ==
  retryDelay * backoffMultiplier ^ (retryCount - 1) + jitter

\* getRetryDelay, lines 242-262, called at time t
getRetryDelay(e, retryCount, t, jitter) ==
  IF categorizeError(e) = "rate_limit_error"
  THEN IF e.retryAfter.form # "none"
       THEN LET delay == IF e.retryAfter.form = "date"
                         THEN e.retryAfter.v - t
                         ELSE e.retryAfter.v * 1000
            IN IF delay < 60000 THEN delay ELSE 60000
       ELSE 5000 * retryCount
  ELSE calculateRetryDelay(retryCount, jitter)

(***************************************************************************)
(* interceptor.js: requests and the token-refresh queue                    *)
(***************************************************************************)
\* pc: idle      not issued yet
\*     inflight  sent, no response yet
\*     awaitRace handleTokenRefresh awaits Promise.race([refresh, timeout])
\*     queued    handleTokenRefresh returned the promise of a subscribed callback
\*     signOutRefresh  the catch of handleTokenRefresh awaits userStore.signOut()
\*     signOutAuthMe   the /auth/me branch awaits userStore.signOut()
\*     retryWait awaiting the backoff delay
\*     resolved / rejected  settled towards the caller
\* error, jitter, delay: the error last handled by the retry logic, and the
\* jitter drawn and the delay computed for the last retry
NewRequest ==
  [pc |-> "idle", authMe |-> FALSE, skipAuth |-> FALSE, noRetry |-> FALSE, retryCount |-> 0,
   err |-> "none", so |-> "none", queuedOn |-> 0,
   error |-> NoError, jitter |-> 0, delay |-> 0]

InSeq(x, sq) == \E i \in 1..Len(sq) : sq[i] = x
Count(x, sq) == Cardinality({i \in 1..Len(sq) : sq[i] = x})

\* a refresh is in progress: some request's handleTokenRefresh awaits its race
RefreshInProgress == \E s \in Reqs : req[s].pc = "awaitRace"

\* request interceptor, lines 274-277: the token of the Authorization header a
\* request leaves with.  It is the store's when the store has one, else what
\* config.headers already carried (hdr)
AuthHeader(sess, hdr) == IF sess.access_token # 0 THEN sess.access_token ELSE hdr

\* axios.request(config): the request is on the wire
Sent(q) == [q EXCEPT !.pc = "inflight"]

\* onTokenRefreshed(token), lines 137-140 and 148-151: each subscribed callback
\* sets its request's header to the token it is given and sends the request.
\* Whether one of them leaves with another token than the store's
StaleAmong(subs, sess, token) ==
  subs # <<>> /\ AuthHeader(sess, token) # sess.access_token

\* the promise handed to the caller settles; nothing of the request is read again
Settled(q, how, e) == [NewRequest EXCEPT !.pc = how, !.err = e]

\* line 146 ignored: the mutant of ShouldQueue
ShouldQueueNever == FALSE

\* handleTokenRefresh, line 146: queue the request instead of refreshing
ShouldQueue == isRefreshing

\* subscribeTokenRefresh losing the callback: the mutant of subscribeTokenRefresh
subscribeTokenRefreshLost(subs, r) == subs

\* subscribeTokenRefresh, lines 132-134
subscribeTokenRefresh(subs, r) == Append(subs, r)

\* line 184 missing: the mutant of CatchSubscribers
CatchSubscribersKept == refreshSubscribers

\* handleTokenRefresh catch, line 184: refreshSubscribers = []
CatchSubscribers == <<>>

\* line 330 never true: the mutant of IsValidationEndpoint
IsValidationEndpointNever(r) == FALSE

\* response interceptor, line 330: originalRequest.url?.includes('/auth/me')
IsValidationEndpoint(r) == req[r].authMe

\* handleTokenRefresh, lines 172-177: the refresh returned a request.  newToken
\* is read from the store; onTokenRefreshed runs every subscribed callback,
\* each sets its header and sends its request; the list is emptied, the flag
\* cleared, and the request that started the refresh is sent.
RefreshSucceeded(r, sess) ==
  LET newToken == sess.access_token
  IN /\ session' = sess
     /\ StoreAdopt(sess)
     /\ req' = [x \in Reqs |->
                  IF x = r \/ InSeq(x, refreshSubscribers)
                  THEN Sent(req[x])
                  ELSE req[x]]
     /\ staleReplay' = (staleReplay \/ StaleAmong(refreshSubscribers, sess, newToken))
     /\ refreshSubscribers' = <<>>
     /\ isRefreshing' = FALSE

\* the catch dropped the list: the callback of a queued request is held by
\* no refresh any more
Dropped(q) == IF q.pc = "queued" THEN [q EXCEPT !.queuedOn = 0] ELSE q

\* handleTokenRefresh, lines 181-202: the refresh returned nothing or the
\* timeout won the race.  The flag and the list are cleared, userStore.signOut()
\* is awaited, and the error is thrown to the caller.
RefreshFailed(r, e, csrf) ==
  LET so == SignOutStart(session, World, csrf)
  IN /\ isRefreshing' = FALSE
     /\ refreshSubscribers' = CatchSubscribers
     /\ session' = so.session
     /\ StoreSignOut(so.pending)
     /\ SetWorld(so.w)
     /\ req' = [x \in Reqs |->
                  IF x = r
                  THEN IF so.pending = "none"
                       THEN Settled(req[x], "rejected", e)
                       ELSE [req[x] EXCEPT !.pc = "signOutRefresh", !.so = so.pending, !.err = e]
                  ELSE Dropped(req[x])]
     /\ UNCHANGED staleReplay

\* axios.request(config) by the application
Issue(r, k) ==
  /\ req[r].pc = "idle"
  /\ \A x \in Reqs : x < r => req[x].pc # "idle"
  /\ req' = [req EXCEPT ![r] = Sent([@ EXCEPT !.authMe = k.authMe, !.skipAuth = k.skipAuth,
                                              !.noRetry = k.noRetry])]
  /\ UNCHANGED <<session, stVars, isRefreshing, refreshSubscribers, call, appSignOut, dupCall, staleReplay, authMeRefreshed>>
  /\ UNCHANGED <<cbVars, rlVars, pvVars, rqLog, retryRun>>

\* response interceptor, line 308: a success response
RespondOk(r) ==
  /\ req[r].pc = "inflight"
  /\ req' = [req EXCEPT ![r] = Settled(@, "resolved", "none")]
  /\ UNCHANGED <<session, stVars, isRefreshing, refreshSubscribers, call, appSignOut, dupCall, staleReplay, authMeRefreshed>>
  /\ UNCHANGED <<cbVars, rlVars, pvVars, rqLog, retryRun>>

\* response interceptor, lines 328-351: 401 from the validation endpoint
RespondAuthMe401(r, csrf) ==
  /\ req[r].pc = "inflight"
  /\ session.access_token # 0 /\ ~req[r].skipAuth
  /\ IsValidationEndpoint(r)
  /\ LET so == SignOutStart(session, World, csrf)
     IN /\ session' = so.session
        /\ StoreSignOut(so.pending)
        /\ SetWorld(so.w)
        /\ req' = [req EXCEPT ![r] =
                     IF so.pending = "none"
                     THEN Settled(@, "rejected", "original")
                     ELSE [@ EXCEPT !.pc = "signOutAuthMe", !.so = so.pending,
                                    !.err = "original"]]
  /\ UNCHANGED <<isRefreshing, refreshSubscribers, call, appSignOut, dupCall, staleReplay, authMeRefreshed>>
  /\ UNCHANGED <<now, ticks, cbEnabled, rlVars, pvVars, rqLog, retryRun>>

\* response interceptor, lines 353-358, and handleTokenRefresh, lines 146-153:
\* 401 while a refresh is in progress
Respond401Queued(r) ==
  /\ req[r].pc = "inflight"
  /\ session.access_token # 0 /\ ~req[r].skipAuth
  /\ ~IsValidationEndpoint(r)
  /\ ShouldQueue
  /\ refreshSubscribers' = subscribeTokenRefresh(refreshSubscribers, r)
  /\ req' = [req EXCEPT ![r] =
               [@ EXCEPT !.pc = "queued",
                         !.queuedOn = IF \E s \in Reqs : req[s].pc = "awaitRace"
                                      THEN CHOOSE s \in Reqs : req[s].pc = "awaitRace"
                                      ELSE 0]]
  /\ authMeRefreshed' = (authMeRefreshed \/ req[r].authMe)
  /\ UNCHANGED <<session, stVars, isRefreshing, call, appSignOut, dupCall, staleReplay>>
  /\ UNCHANGED <<cbVars, rlVars, pvVars, rqLog, retryRun>>

\* response interceptor, lines 353-358, and handleTokenRefresh, lines 155-170:
\* 401 with no refresh in progress.  The session's provider is asked to refresh:
\*   local     reads its stored session from localStorage (stored: it is there),
\*             re-adopts it with setSession and returns the request at once;
\*   google    returns null at once without the refresh_csrf cookie (csrf),
\*             else posts to /api/auth/google/refresh;
\*   supabase  calls supabase.auth.refreshSession().
Respond401Refresh(r, csrf, stored) ==
  /\ req[r].pc = "inflight"
  /\ session.access_token # 0 /\ ~req[r].skipAuth
  /\ ~IsValidationEndpoint(r)
  /\ ~ShouldQueue
  /\ dupCall' = (dupCall \/ RefreshInProgress)
  /\ authMeRefreshed' = (authMeRefreshed \/ req[r].authMe)
  /\ LET p == session.provider
     IN IF p = "local" /\ stored
        THEN /\ session' = NormalizeSession("local", session.access_token)
             /\ StoreAdopt(session)
             /\ req' = [x \in Reqs |->
                          IF x = r \/ InSeq(x, refreshSubscribers)
                          THEN Sent(req[x])
                          ELSE req[x]]
             /\ staleReplay' = (staleReplay \/ StaleAmong(refreshSubscribers, session',
                                                          session'.access_token))
             /\ refreshSubscribers' = <<>>
             /\ isRefreshing' = FALSE
             /\ UNCHANGED <<call, cbVars, rlVars, pvVars, rqLog, retryRun>>
        ELSE IF p = "local" \/ (p = "google" /\ ~csrf)
        THEN LET so == SignOutStart(session, World, csrf)
             IN /\ isRefreshing' = FALSE
                /\ refreshSubscribers' = CatchSubscribers
                /\ session' = so.session
                /\ StoreSignOut(so.pending)
                /\ SetWorld(so.w)
                /\ req' = [x \in Reqs |->
                             IF x = r
                             THEN IF so.pending = "none"
                                  THEN Settled(req[x], "rejected", "refresh_error")
                                  ELSE [req[x] EXCEPT !.pc = "signOutRefresh",
                                                      !.so = so.pending,
                                                      !.err = "refresh_error"]
                             ELSE Dropped(req[x])]
                /\ UNCHANGED <<call, staleReplay, now, ticks, cbEnabled, rlVars, pvVars, rqLog, retryRun>>
        ELSE /\ isRefreshing' = TRUE
             /\ call' = [call EXCEPT ![r] = p]
             /\ req' = [req EXCEPT ![r] = [@ EXCEPT !.pc = "awaitRace"]]
             /\ UNCHANGED <<session, stVars, refreshSubscribers, staleReplay, cbVars, rlVars, pvVars, rqLog, retryRun>>
  /\ UNCHANGED appSignOut

\* response interceptor, lines 361-419: any other failure (resp: what came
\* back; error.config is the request's) is retried after a delay when
\* shouldRetry says so, else rejected with the error, which records the
\* retry count (line 390)
RespondError(r, resp, jitter) ==
  /\ req[r].pc = "inflight"
  /\ resp.hasResponse => resp.status >= 300
  /\ ~(resp.hasResponse /\ resp.status = 401 /\ session.access_token # 0 /\ ~req[r].skipAuth)
  /\ LET e == [resp EXCEPT !.noRetry = req[r].noRetry]
         n == req[r].retryCount
     IN req' = [req EXCEPT ![r] =
                  IF shouldRetry(e, n)
                  THEN [@ EXCEPT !.pc = "retryWait", !.retryCount = n + 1, !.error = e,
                                 !.jitter = jitter,
                                 !.delay = getRetryDelay(e, n + 1, now, jitter)]
                  ELSE [Settled(@, "rejected", "final") EXCEPT !.retryCount = n, !.error = e]]
  /\ UNCHANGED <<session, stVars, isRefreshing, refreshSubscribers, call, appSignOut, dupCall, staleReplay, authMeRefreshed>>
  /\ UNCHANGED <<cbVars, rlVars, pvVars, rqLog, retryRun>>

\* line 375-378: the backoff delay is over and the request is sent again
RetryFire(r) ==
  /\ req[r].pc = "retryWait"
  /\ req' = [req EXCEPT ![r] = Sent(@)]
  /\ UNCHANGED <<session, stVars, isRefreshing, refreshSubscribers, call, appSignOut, dupCall, staleReplay, authMeRefreshed>>
  /\ UNCHANGED <<cbVars, rlVars, pvVars, rqLog, retryRun>>

\* provider.handleTokenExpiry: the refresh call answered with access token t.
\* The provider adopts the new session with userStore.setSession and returns
\* the request (supabase lines 48-53, google lines 203-215), whether or not
\* handleTokenRefresh still awaits it.
ExpiryCallSucceeds(r, t) ==
  /\ call[r] # "none"
  /\ call' = [call EXCEPT ![r] = "none"]
  /\ IF req[r].pc = "awaitRace"
     THEN RefreshSucceeded(r, NormalizeSession(call[r], t))
     ELSE /\ session' = NormalizeSession(call[r], t)
          /\ StoreAdopt(NormalizeSession(call[r], t))
          /\ UNCHANGED <<req, refreshSubscribers, isRefreshing, staleReplay>>
  /\ UNCHANGED <<appSignOut, dupCall, authMeRefreshed>>
  /\ UNCHANGED <<cbVars, rlVars, pvVars, rqLog, retryRun>>

\* provider.handleTokenExpiry: the refresh call failed and the provider
\* returns null (supabase lines 43-46 and 54-57, google lines 217-221)
ExpiryCallFails(r, csrf) ==
  /\ call[r] # "none"
  /\ call' = [call EXCEPT ![r] = "none"]
  /\ IF req[r].pc = "awaitRace"
     THEN RefreshFailed(r, "refresh_error", csrf)
     ELSE UNCHANGED <<session, stVars, req, refreshSubscribers, isRefreshing, staleReplay, cb,
                      cbInflight, failRun, runFromClosed, hoRun, cbLast>>
  /\ UNCHANGED <<appSignOut, dupCall, authMeRefreshed>>
  /\ UNCHANGED <<now, ticks, cbEnabled, rlVars, pvVars, rqLog, retryRun>>

\* handleTokenRefresh, lines 166-170: the tokenRefreshTimeout timer fires first
RefreshTimeout(r, csrf) ==
  /\ req[r].pc = "awaitRace"
  /\ RefreshFailed(r, "refresh_error", csrf)
  /\ UNCHANGED <<call, appSignOut, dupCall, authMeRefreshed>>
  /\ UNCHANGED <<now, ticks, cbEnabled, rlVars, pvVars, rqLog, retryRun>>

\* the provider's signOut awaited by a request's userStore.signOut() settles
\* (google.signOut swallows its own failures); signOut() runs to its end and the
\* request is rejected (line 201, line 350)
RequestSignOutDone(r, ok) ==
  /\ req[r].pc \in {"signOutRefresh", "signOutAuthMe"}
  /\ ok \/ req[r].so = "supabase"
  /\ LET so == SignOutEnd(session, World, ok)
     IN /\ session' = so.session
        /\ StoreSignOut("none")
        /\ SetWorld(so.w)
  /\ req' = [req EXCEPT ![r] = Settled(@, "rejected", @.err)]
  /\ UNCHANGED <<isRefreshing, refreshSubscribers, call, appSignOut, dupCall, staleReplay, authMeRefreshed>>
  /\ UNCHANGED <<now, ticks, cbEnabled, rlVars, pvVars, rqLog, retryRun>>

\* the application signs in: a login widget calls setSession(raw, p)
AppSignIn(p, t) ==
  /\ session = NoSession
  /\ session' = NormalizeSession(p, t)
  /\ StoreAdopt(NormalizeSession(p, t))
  /\ UNCHANGED <<isRefreshing, refreshSubscribers, req, call, appSignOut, dupCall, staleReplay, authMeRefreshed>>
  /\ UNCHANGED <<cbVars, rlVars, pvVars, rqLog, retryRun>>

\* the application calls userStore.signOut()
AppSignOut(csrf) ==
  /\ appSignOut = "none"
  /\ session # NoSession
  /\ LET so == SignOutStart(session, World, csrf)
     IN /\ session' = so.session
        /\ StoreSignOut(so.pending)
        /\ SetWorld(so.w)
        /\ appSignOut' = so.pending
  /\ UNCHANGED <<isRefreshing, refreshSubscribers, req, call, dupCall, staleReplay, authMeRefreshed>>
  /\ UNCHANGED <<now, ticks, cbEnabled, rlVars, pvVars, rqLog, retryRun>>

\* the provider's signOut awaited by the application's signOut() settles
AppSignOutDone(ok) ==
  /\ appSignOut # "none"
  /\ ok \/ appSignOut = "supabase"
  /\ LET so == SignOutEnd(session, World, ok)
     IN /\ session' = so.session
        /\ StoreSignOut("none")
        /\ SetWorld(so.w)
  /\ appSignOut' = "none"
  /\ UNCHANGED <<isRefreshing, refreshSubscribers, req, call, dupCall, staleReplay, authMeRefreshed>>
  /\ UNCHANGED <<now, ticks, cbEnabled, rlVars, pvVars, rqLog, retryRun>>

\* document.cookie holds refresh_csrf or not; only the google provider reads it
CsrfChoices == IF session.provider = "google" THEN BOOLEAN ELSE {TRUE}

\* localStorage holds the local provider's session or not; only it reads it
StoredChoices == IF session.provider = "local" THEN BOOLEAN ELSE {TRUE}

\* the requests the application issues: to /auth/me or elsewhere, with
\* _skipAuth (which makes the url irrelevant to the interceptor) or without
RequestKinds ==
  {[authMe |-> FALSE, skipAuth |-> FALSE, noRetry |-> FALSE],
   [authMe |-> TRUE, skipAuth |-> FALSE, noRetry |-> FALSE],
   [authMe |-> FALSE, skipAuth |-> TRUE, noRetry |-> FALSE]}

\* no linking snapshot has been taken
NoSnapshot == [session |-> NoSession, provider |-> "none"]

\* no initialize() is running
NoBoot == [pc |-> "none", idx |-> 0]

\* getStoredSession() finds nothing
NoStored == [kind |-> "none", token |-> 0]

\* Object.keys(authProviders) when the store's imports are the first to load
\* the provider modules
ProviderOrder == <<"supabase", "google", "local">>

\* none of the provider-aware store operations has been called
NoProvOp == [op |-> "none", returned |-> "none", arg |-> "none", n |-> 0]

\* the provider-aware store operations are not in use: the configuration is
\* config/auth.js's without environment overrides, no provider has a stored
\* session
PVIdle ==
  /\ defaultProvider = "supabase"
  /\ allowAnonymous = FALSE
  /\ autoStartAnonymous = FALSE
  /\ registry = ProviderOrder
  /\ storedSession = [p \in Providers |-> NoStored]
  /\ snapshot = NoSnapshot
  /\ restoring = "none"
  /\ boot = NoBoot
  /\ provCalls = <<>>
  /\ pvLast = NoProvOp

\* what a withRetry() call came to: nothing yet, the operation's value, the
\* error thrown, or undefined thrown
NoOutcome == [kind |-> "none", err |-> NoError]

\* no withRetry() call is followed
NoRetryRun ==
  [pc |-> "none", name |-> "none", maxRetries |-> 0, attempt |-> 0, invoked |-> 0,
   caught |-> <<>>, out |-> NoOutcome, n |-> 0]

\* the store as constructed, the interceptor with no request
StoreIdle ==
  /\ session = NoSession
  /\ profile = Null
  /\ linkedProviders = {}
  /\ authorization = 0
  /\ errorType = NoErrorType
  /\ failureCount = 0
  /\ fetch = NoFetch
  /\ stLast = Did("none", TRUE, "")
  /\ isRefreshing = FALSE
  /\ refreshSubscribers = <<>>
  /\ req = [r \in Reqs |-> NewRequest]
  /\ call = [r \in Reqs |-> "none"]
  /\ appSignOut = "none"
  /\ dupCall = FALSE
  /\ staleReplay = FALSE
  /\ authMeRefreshed = FALSE
  /\ rqLog = <<>>
  /\ retryRun = NoRetryRun

\* nothing of the interceptor or the store is running
ICIdle ==
  /\ StoreIdle
  /\ PVIdle

\* the 'auth' breaker as earlier failures of store operations run under it
\* (initialize, convertAnonymousAccount) may have left it: open
CBOpened ==
  [state |-> "open", failures |-> CBThreshold, lastFailureTime |-> NowInit, successCount |-> 0]

ICInit ==
  /\ now = NowInit
  /\ ticks = 0
  /\ cbEnabled = TRUE
  /\ \E b \in {CBFresh, CBOpened} : cb = [n \in CBNames |-> IF n = "auth" THEN b ELSE CBFresh]
  /\ cbInflight = [n \in CBNames |-> 0]
  /\ failRun = [n \in CBNames |-> 0]
  /\ runFromClosed = [n \in CBNames |-> FALSE]
  /\ hoRun = [n \in CBNames |-> 0]
  /\ cbLast = NoEvent
  /\ ICIdle
  /\ RLIdle

ICNext ==
  \/ \E r \in Reqs, k \in RequestKinds : Issue(r, k)
  \/ \E r \in Reqs : RespondOk(r)
  \/ \E r \in Reqs, c \in CsrfChoices : RespondAuthMe401(r, c)
  \/ \E r \in Reqs : Respond401Queued(r)
  \/ \E r \in Reqs, c \in CsrfChoices, st \in StoredChoices : Respond401Refresh(r, c, st)
  \/ \E r \in Reqs : RespondError(r, HttpError(401), 0)
  \/ \E r \in Reqs, t \in Tokens : ExpiryCallSucceeds(r, t)
  \/ \E r \in Reqs, c \in CsrfChoices : ExpiryCallFails(r, c)
  \/ \E r \in Reqs, c \in CsrfChoices : RefreshTimeout(r, c)
  \/ \E r \in Reqs, ok \in BOOLEAN : RequestSignOutDone(r, ok)
  \/ \E p \in Providers, t \in Tokens : AppSignIn(p, t)
  \/ \E c \in CsrfChoices : AppSignOut(c)
  \/ \E ok \in BOOLEAN : AppSignOutDone(ok)

SpecIC == ICInit /\ [][ICNext]_vars

\* The interceptor and the store with every pending answer, timer and
\* continuation eventually served: the event loop runs what is ready.
FairIC == ICInit /\ [][ICNext]_vars /\ WF_vars(ICNext)

(***************************************************************************)
(* userState store: setSession(null) and fetchProfile                      *)
(***************************************************************************)
\* the interceptor's own state, which the store's operations leave alone
icOnly == <<isRefreshing, refreshSubscribers, req, call, dupCall, staleReplay, authMeRefreshed,
           rqLog, retryRun>>

\* the store's session state as one value
StoreState ==
  [session |-> session, profile |-> profile, linkedProviders |-> linkedProviders,
   authorization |-> authorization, errorType |-> errorType, failureCount |-> failureCount]

SetStore(st) ==
  /\ session' = st.session
  /\ profile' = st.profile
  /\ linkedProviders' = st.linkedProviders
  /\ authorization' = st.authorization
  /\ errorType' = st.errorType
  /\ failureCount' = st.failureCount

\* setSession(null) with line 181 lost: the default header stays
setSessionNullKeepsHeader(st) ==
  [returned |-> TRUE,
   store |-> [st EXCEPT !.session = NoSession, !.profile = Null, !.linkedProviders = {},
                        !.errorType = NoErrorType, !.failureCount = 0]]

\* setSession(null), lines 173-185, on the store st: the value returned and
\* the store afterwards
setSessionNull(st) ==
  [returned |-> TRUE,
   store |-> [st EXCEPT !.session = NoSession, !.profile = Null, !.linkedProviders = {},
                        !.authorization = 0, !.errorType = NoErrorType, !.failureCount = 0]]

\* the application calls userStore.setSession(null)
SetSessionNull ==
  /\ LET r == setSessionNull(StoreState)
     IN /\ SetStore(r.store)
        /\ stLast' = Did("setSession(null)", r.returned, "")
  /\ UNCHANGED <<fetch, appSignOut, icOnly, cbVars, rlVars, pvVars>>

\* withRetry with the test of lines 138-142 lost: every error is retried
IsRetryableAnyError(e) == TRUE

\* withRetry, lines 138-142: isRetryable
IsRetryable(e) == e.timeoutLike \/ (e.hasResponse /\ (e.status >= 500 \/ e.status = 429))

\* fetchProfile's catch with lines 321-324 lost: no sign-out, whatever the count
FetchProfileFailedKeepsSession(e, w, csrf) ==
  /\ errorType' = IF e.hasResponse /\ e.status = 401 THEN "session_invalid"
                   ELSE IF e.timeoutLike THEN "timeout"
                   ELSE "profile_fetch_failed"
  /\ failureCount' = failureCount + 1
  /\ fetch' = NoFetch
  /\ stLast' = Did("fetchProfile", FALSE, "")
  /\ SetWorld(w)
  /\ UNCHANGED <<session, profile, linkedProviders, authorization>>

\* fetchProfile's catch, lines 310-345, for the error e that withRetry threw,
\* the breakers being w.  A 401 at the failure limit awaits signOut(), whose
\* first statement clears the error just set.
FetchProfileFailed(e, w, csrf) ==
  LET n == failureCount + 1
  IN IF e.hasResponse /\ e.status = 401 /\ n >= ProfileFailureLimit
     THEN LET so == SignOutStart(session, w, csrf)
          IN /\ session' = so.session
             /\ StoreSignOutCore(so.pending, n)
             /\ stLast' = SignOutDid(so)
             /\ SetWorld(so.w)
             /\ fetch' = IF so.pending = "none" THEN NoFetch
                         ELSE [pc |-> "signOut", attempt |-> 0, so |-> so.pending]
     ELSE /\ errorType' = IF e.hasResponse /\ e.status = 401 THEN "session_invalid"
                          ELSE IF e.timeoutLike THEN "timeout"
                          ELSE "profile_fetch_failed"
          /\ failureCount' = n
          /\ fetch' = NoFetch
          /\ stLast' = Did("fetchProfile", FALSE, "")
          /\ SetWorld(w)
          /\ UNCHANGED <<session, profile, linkedProviders, authorization>>

\* one pass of withRetry's loop in fetchProfile, lines 124-131: clearError(),
\* then circuitBreakers.profile.execute(() => axios.get('/api/auth/me')).  A
\* circuit-open error is not retryable and goes to fetchProfile's catch.
FetchAttempt(attempt, csrf) ==
  IF ~WAllows(World, "profile", now)
  THEN FetchProfileFailed(NoResponseError(FALSE), WCall(World, "profile", now), csrf)
  ELSE /\ fetch' = [pc |-> "inflight", attempt |-> attempt, so |-> "none"]
       /\ SetWorld(WCall(World, "profile", now))
       /\ errorType' = NoErrorType
       /\ stLast' = Did("fetchProfile awaits", TRUE, "")
       /\ UNCHANGED <<session, profile, linkedProviders, authorization, failureCount>>

\* fetchProfile() is called.  Without a token or with an anonymous session it
\* clears the error and returns false (lines 264-267); checkRateLimit('profile')
\* finds no limits configured and allows (line 270).
FetchProfileStart(csrf) ==
  /\ fetch.pc = "none"
  /\ failureCount < MaxFailureCount
  /\ IF session.access_token = 0 \/ session.isAnonymous
     THEN /\ errorType' = NoErrorType
          /\ stLast' = Did("fetchProfile", FALSE, "guard")
          /\ UNCHANGED <<session, profile, linkedProviders, authorization, failureCount, fetch>>
          /\ UNCHANGED <<cb, cbInflight, failRun, runFromClosed, hoRun, cbLast>>
     ELSE FetchAttempt(1, csrf)
  /\ UNCHANGED <<appSignOut, icOnly, now, ticks, cbEnabled, rlVars, pvVars>>

\* /api/auth/me answers: lines 293-307
FetchProfileOk(linked) ==
  /\ fetch.pc = "inflight"
  /\ SetWorld(WDone(World, "profile", TRUE, now))
  /\ profile' = 1
  /\ linkedProviders' = linked
  /\ failureCount' = 0
  /\ fetch' = NoFetch
  /\ stLast' = Did("fetchProfile", TRUE, "")
  /\ UNCHANGED <<session, authorization, errorType>>
  /\ UNCHANGED <<appSignOut, icOnly, now, ticks, cbEnabled, rlVars, pvVars>>

\* the request fails with e: withRetry waits before another attempt when e is
\* retryable and attempts are left (lines 144-164), else throws to fetchProfile
FetchProfileFails(e, csrf) ==
  /\ fetch.pc = "inflight"
  /\ LET w == WDone(World, "profile", FALSE, now)
     IN IF IsRetryable(e) /\ fetch.attempt < maxAttempts
        THEN /\ fetch' = [fetch EXCEPT !.pc = "backoff"]
             /\ SetWorld(w)
             /\ stLast' = Did("fetchProfile awaits", TRUE, "")
             /\ UNCHANGED <<session, profile, linkedProviders, authorization, errorType,
                            failureCount>>
        ELSE FetchProfileFailed(e, w, csrf)
  /\ UNCHANGED <<appSignOut, icOnly, now, ticks, cbEnabled, rlVars, pvVars>>

\* withRetry's backoff timer fires (line 164): the next attempt
FetchProfileRetry(csrf) ==
  /\ fetch.pc = "backoff"
  /\ FetchAttempt(fetch.attempt + 1, csrf)
  /\ UNCHANGED <<appSignOut, icOnly, now, ticks, cbEnabled, rlVars, pvVars>>

\* the provider's signOut awaited by fetchProfile's signOut() settles
FetchSignOutDone(ok) ==
  /\ fetch.pc = "signOut"
  /\ ok \/ fetch.so = "supabase"
  /\ LET so == SignOutEnd(session, World, ok)
     IN /\ session' = so.session
        /\ StoreSignOutCore("none", failureCount)
        /\ stLast' = Did("signOut", TRUE, so.note)
        /\ SetWorld(so.w)
  /\ fetch' = NoFetch
  /\ UNCHANGED <<appSignOut, icOnly, now, ticks, cbEnabled, rlVars, pvVars>>

\* a login widget calls setSession(raw, p)
SignIn(p, t) ==
  /\ session = NoSession
  /\ session' = NormalizeSession(p, t)
  /\ StoreAdoptCore(NormalizeSession(p, t))
  /\ stLast' = Did("setSession", TRUE, "")
  /\ UNCHANGED <<appSignOut, icOnly, cbVars, rlVars, pvVars>>

\* the application calls userStore.signOut()
SignOut(csrf) ==
  /\ appSignOut = "none"
  /\ session # NoSession
  /\ LET so == SignOutStart(session, World, csrf)
     IN /\ session' = so.session
        /\ StoreSignOutCore(so.pending, failureCount)
        /\ stLast' = SignOutDid(so)
        /\ SetWorld(so.w)
        /\ appSignOut' = so.pending
  /\ UNCHANGED <<fetch, icOnly, now, ticks, cbEnabled, rlVars, pvVars>>

\* the provider's signOut awaited by the application's signOut() settles
SignOutDone(ok) ==
  /\ appSignOut # "none"
  /\ ok \/ appSignOut = "supabase"
  /\ LET so == SignOutEnd(session, World, ok)
     IN /\ session' = so.session
        /\ StoreSignOutCore("none", failureCount)
        /\ stLast' = Did("signOut", TRUE, so.note)
        /\ SetWorld(so.w)
  /\ appSignOut' = "none"
  /\ UNCHANGED <<fetch, icOnly, now, ticks, cbEnabled, rlVars, pvVars>>

\* Date.now() moves on by more than the breakers' timeout
STTick ==
  /\ ticks < MaxSTTicks
  /\ now' = now + CBTimeout + 1
  /\ ticks' = ticks + 1
  /\ UNCHANGED <<cbEnabled, cb, cbInflight, failRun, runFromClosed, hoRun, cbLast>>
  /\ UNCHANGED <<icVars, rlVars, pvVars>>

\* the answers /api/auth/me fails with
FetchErrors == {HttpError(401), HttpError(404), HttpError(500), NoResponseError(TRUE)}

\* payload.linked_providers
LinkedChoices == {{}, {"google"}}

(***************************************************************************)
(* The store on its own: sign-in, setSession(null), fetchProfile and       *)
(* signOut interleaved as the clock advances, no request of the            *)
(* application in the interceptor.                                         *)
(***************************************************************************)
STInit == ICInit

STNext ==
  \/ \E p \in Providers, t \in Tokens : SignIn(p, t)
  \/ SetSessionNull
  \/ \E c \in CsrfChoices : FetchProfileStart(c)
  \/ \E l \in LinkedChoices : FetchProfileOk(l)
  \/ \E e \in FetchErrors, c \in CsrfChoices : FetchProfileFails(e, c)
  \/ \E c \in CsrfChoices : FetchProfileRetry(c)
  \/ \E ok \in BOOLEAN : FetchSignOutDone(ok)
  \/ \E c \in CsrfChoices : SignOut(c)
  \/ \E ok \in BOOLEAN : SignOutDone(ok)
  \/ STTick

SpecST == STInit /\ [][STNext]_vars

(***************************************************************************)
(* auth/authProviders.js, the providers' normalizeSession, and             *)
(* setSession(raw, provider)                                               *)
(***************************************************************************)
\* property names every plain object inherits from Object.prototype
InheritedNames == {"constructor"}

\* the provider names a caller, a raw session or the configuration may give:
\* the registered ones, one that nobody registered, an inherited one
ProviderNames == Providers \cup {"ghost"} \cup InheritedNames

\* getAuthProvider(name): authProviders[name], authProviders being the plain
\* object {}.  A registered name yields its provider; a name inherited from
\* Object.prototype yields a truthy value without normalizeSession; any other
\* name yields undefined.
getAuthProvider(name) ==
  IF name \in Providers THEN name
  ELSE IF name \in InheritedNames THEN "inherited"
  ELSE "undefined"

\* session.user absent
NoUser == [email |-> "none", name |-> "none", meta |-> "none"]

\* user.email.split('@')[0]
EmailPrefix(email) == IF email = "ann@x.io" THEN "ann" ELSE "anon"

\* the payload of an access token: token 1 is a JWT of a user whose metadata
\* carries a full name, token 2 is opaque (atob or JSON.parse throws)
JwtPayload(t) ==
  IF t = 1 THEN [email |-> "ann@x.io", name |-> "none", meta |-> "Ann Lee"]
  ELSE NoUser

\* normalizers/supabase.js normalizeSupabaseToken: the name is the metadata's
\* full name, else the e-mail's local part; no user_metadata in the result
normalizeSupabaseToken(d) ==
  [email |-> d.email,
   name |-> IF d.meta # "none" THEN d.meta ELSE EmailPrefix(d.email),
   meta |-> "none"]

\* normalizers/supabase.js normalizeSupabaseSession: the user comes from the
\* decoded token, else from session.user, whose own name is not read.  The
\* result carries is_anonymous, not the isAnonymous the store reads.
normalizeSupabaseSession(raw) ==
  LET d == JwtPayload(raw.access_token)
      u == IF d # NoUser THEN normalizeSupabaseToken(d)
           ELSE IF raw.user # NoUser
                THEN [email |-> raw.user.email,
                      name |-> IF raw.user.meta # "none" THEN raw.user.meta
                               ELSE EmailPrefix(raw.user.email),
                      meta |-> "none"]
                ELSE NoUser
  IN [access_token |-> raw.access_token, provider |-> "supabase", isAnonymous |-> FALSE,
      user |-> u, hint |-> "none"]

\* normalizers/supabase.js normalizeGoogleSession: the session as it came
normalizeGoogleSession(raw) == raw

\* the local provider's normalizeSession: always anonymous
normalizeLocalSession(raw) ==
  [access_token |-> raw.access_token, provider |-> "local", isAnonymous |-> TRUE,
   user |-> raw.user, hint |-> "none"]

\* authProvider.normalizeSession(rawSession), line 203
normalizeSession(p, raw) ==
  IF p = "supabase" THEN normalizeSupabaseSession(raw)
  ELSE IF p = "google" THEN normalizeGoogleSession(raw)
  ELSE normalizeLocalSession(raw)

\* the raw sessions each provider and its backend hand to setSession: the
\* Supabase client's session (user_metadata with or without a full name), the
\* Google endpoints' session, the local provider's anonymous session
RawSessions(p) ==
  IF p = "supabase"
  THEN {[access_token |-> t, provider |-> "none", isAnonymous |-> FALSE,
         user |-> [email |-> "ann@x.io", name |-> "none", meta |-> m], hint |-> "none"] :
          t \in Tokens, m \in {"none", "Ann Lee"}}
  ELSE IF p = "google"
  THEN {[access_token |-> t, provider |-> "google", isAnonymous |-> FALSE,
         user |-> [email |-> "ann@x.io", name |-> "Ann Lee", meta |-> "none"],
         hint |-> "google"] : t \in Tokens}
  ELSE {[access_token |-> t, provider |-> "local", isAnonymous |-> FALSE,
         user |-> [email |-> "anon@local", name |-> "none", meta |-> "none"],
         hint |-> "local"] : t \in Tokens}

AllRawSessions == UNION {RawSessions(p) : p \in Providers}

\* setSession, line 189: providerName || rawSession._provider ||
\* authConfig.defaultProvider || 'none'
ResolveProvider(providerName, raw, def) ==
  IF providerName # "none" THEN providerName
  ELSE IF raw.hint # "none" THEN raw.hint
  ELSE def

\* setSession(rawSession, providerName) for a non-null rawSession, lines
\* 172-260, on the store st: the value returned, the provider resolved and the
\* store afterwards.  An unknown provider sets the error and nulls the
\* session only; a value without normalizeSession makes line 203 throw a
\* TypeError, which the catch at line 252 turns into session_invalid.
setSession(st, raw, providerName, def) ==
  LET p == ResolveProvider(providerName, raw, def)
      s == normalizeSession(p, raw)
  IN IF getAuthProvider(p) = "undefined"
     THEN [returned |-> "false", provider |-> p,
           store |-> [st EXCEPT !.session = NoSession, !.errorType = "provider_not_found"]]
     ELSE IF getAuthProvider(p) = "inherited"
     THEN [returned |-> "false", provider |-> p,
           store |-> [st EXCEPT !.errorType = "session_invalid"]]
     ELSE [returned |-> "true", provider |-> p,
           store |-> [st EXCEPT !.session = s, !.authorization = s.access_token,
                                !.errorType = NoErrorType, !.failureCount = 0]]

\* the application, a widget or a provider calls setSession(raw, providerName)
SetSession(raw, providerName) ==
  /\ pvLast.n < MaxSSOps
  /\ restoring = "none"
  /\ fetch.pc = "none"
  /\ appSignOut = "none"
  /\ LET r == setSession(StoreState, raw, providerName, defaultProvider)
     IN /\ r.provider \in Providers => raw \in RawSessions(r.provider)
        /\ SetStore(r.store)
        /\ pvLast' = [op |-> "setSession", returned |-> r.returned, arg |-> r.provider,
                      n |-> pvLast.n + 1]
  /\ UNCHANGED <<fetch, stLast, appSignOut, icOnly, cbVars, rlVars>>
  /\ UNCHANGED <<pvConfig, snapshot, restoring, boot, provCalls>>

\* authConfig.defaultProvider as the environment may set it
DefaultChoices == {"supabase", "ghost"}

\* rawSession._provider as a caller may have set it
HintChoices == {"none", "ghost", "constructor"}

\* the raw sessions setSession is called with
RawChoices == AllRawSessions \cup {[r EXCEPT !.hint = h] : r \in AllRawSessions, h \in HintChoices}

\* no operation of the store is awaiting anything
StoreQuiet ==
  /\ fetch.pc = "none"
  /\ appSignOut = "none"
  /\ restoring = "none"
  /\ boot.pc = "none"

(***************************************************************************)
(* linking/sessionSnapshot.js                                              *)
(***************************************************************************)
\* cloneSession(session): JSON.parse(JSON.stringify(session)) rebuilds the
\* object from its own enumerable fields; null stays null
cloneSession(s) ==
  IF s = NoSession THEN NoSession
  ELSE [access_token |-> s.access_token, provider |-> s.provider, isAnonymous |-> s.isAnonymous,
        user |-> [email |-> s.user.email, name |-> s.user.name, meta |-> s.user.meta],
        hint |-> s.hint]

\* createLinkingSessionSnapshot(store), lines 13-23, on the store st
createLinkingSessionSnapshot(st) ==
  [session |-> cloneSession(st.session), provider |-> st.session.provider]

\* restoreLinkingSessionSnapshot, line 26: nothing to restore
SnapshotIncomplete(snap) == snap.session = NoSession \/ snap.provider = "none"

\* restoreLinkingSessionSnapshot with the test of line 30 lost: the snapshot is
\* restored whichever provider was linked
RestoreSkipsNever(snap, linked) == FALSE

\* restoreLinkingSessionSnapshot, line 30: the provider just linked is the
\* snapshot's own
RestoreSkips(snap, linked) == linked # "none" /\ snap.provider = linked

\* the component takes a snapshot before a linking flow starts
CreateSnapshot ==
  /\ StoreQuiet
  /\ pvLast.n < MaxSSOps
  /\ snapshot' = createLinkingSessionSnapshot(StoreState)
  /\ pvLast' = [op |-> "createSnapshot", returned |-> "none", arg |-> "none", n |-> pvLast.n + 1]
  /\ UNCHANGED <<cbVars, icVars, rlVars, pvConfig, restoring, boot, provCalls>>

\* the application hands restoreSnapshot a snapshot of its own making (the
\* snapshot is a parameter of the exported function): the store's session
\* under a provider name that nothing is registered under
SnapshotOfUnregistered ==
  /\ StoreQuiet
  /\ pvLast.n < MaxSSOps
  /\ session # NoSession
  /\ snapshot' = [session |-> cloneSession(session), provider |-> "ghost"]
  /\ pvLast' = [op |-> "createSnapshot", returned |-> "none", arg |-> "ghost", n |-> pvLast.n + 1]
  /\ UNCHANGED <<cbVars, icVars, rlVars, pvConfig, restoring, boot, provCalls>>

\* restoreLinkingSessionSnapshot(store, snapshot, linked) up to its first
\* await of fetchProfile(), lines 26-45.  An incomplete snapshot returns
\* false at once; the snapshot's own provider leaves the session alone; any
\* other awaits setSession(snapshot.session, snapshot.provider), whose result
\* is not looked at.  The record of the call keeps whether the snapshot was
\* the store's session at the call (same), the session the store held then
\* (before), and how often setSession and fetchProfile were called.
Restore(linked) ==
  /\ StoreQuiet
  /\ pvLast.n < MaxSSOps
  /\ failureCount < MaxFailureCount
  /\ LET same == snapshot = createLinkingSessionSnapshot(StoreState)
         did(ret, sets) == [op |-> "restore", returned |-> ret, arg |-> linked,
                            n |-> pvLast.n + 1, same |-> same, before |-> session,
                            sets |-> sets, fetches |-> 0]
     IN IF SnapshotIncomplete(snapshot)
        THEN /\ pvLast' = did("false", 0)
             /\ UNCHANGED <<session, profile, linkedProviders, authorization, errorType,
                            failureCount, restoring>>
        ELSE IF RestoreSkips(snapshot, linked)
        THEN /\ pvLast' = did("pending", 0)
             /\ restoring' = "refresh"
             /\ UNCHANGED <<session, profile, linkedProviders, authorization, errorType,
                            failureCount>>
        ELSE /\ pvLast' = did("pending", 1)
             /\ restoring' = "restored"
             /\ SetStore(setSession(StoreState, snapshot.session, snapshot.provider,
                                    defaultProvider).store)
  /\ UNCHANGED <<fetch, stLast, appSignOut, icOnly, cbVars, rlVars>>
  /\ UNCHANGED <<pvConfig, snapshot, boot, provCalls>>

\* restoreLinkingSessionSnapshot, lines 32 and 47: await store.fetchProfile(),
\* which returns false at once without a token or with an anonymous session
RestoreFetchProfile(csrf) ==
  /\ restoring \in {"refresh", "restored"}
  /\ IF session.access_token = 0 \/ session.isAnonymous
     THEN /\ errorType' = NoErrorType
          /\ stLast' = Did("fetchProfile", FALSE, "guard")
          /\ UNCHANGED <<session, profile, linkedProviders, authorization, failureCount, fetch>>
          /\ UNCHANGED <<cb, cbInflight, failRun, runFromClosed, hoRun, cbLast>>
     ELSE FetchAttempt(1, csrf)
  /\ restoring' = IF restoring = "refresh" THEN "refreshing" ELSE "restoring"
  /\ pvLast' = [pvLast EXCEPT !.fetches = @ + 1]
  /\ UNCHANGED <<appSignOut, icOnly, now, ticks, cbEnabled, rlVars>>
  /\ UNCHANGED <<pvConfig, snapshot, boot, provCalls>>

\* restoreLinkingSessionSnapshot returns once fetchProfile() has settled:
\* false after the refresh of line 32, true after the restore of line 40
RestoreDone ==
  /\ restoring \in {"refreshing", "restoring"}
  /\ fetch.pc = "none"
  /\ pvLast' = [pvLast EXCEPT !.returned = IF restoring = "restoring" THEN "true" ELSE "false"]
  /\ restoring' = "none"
  /\ UNCHANGED <<cbVars, icVars, rlVars, pvConfig, snapshot, boot, provCalls>>

\* the provider the component has just linked, null when there was none
LinkedNames == Providers \cup {"none"}

(***************************************************************************)
(* The store's sessions on their own: setSession with every provider       *)
(* name, and the linking snapshot taken and restored.                      *)
(***************************************************************************)
SSInit ==
  /\ now = NowInit
  /\ ticks = 0
  /\ cbEnabled = TRUE
  /\ cb = [n \in CBNames |-> CBFresh]
  /\ cbInflight = [n \in CBNames |-> 0]
  /\ failRun = [n \in CBNames |-> 0]
  /\ runFromClosed = [n \in CBNames |-> FALSE]
  /\ hoRun = [n \in CBNames |-> 0]
  /\ cbLast = NoEvent
  /\ StoreIdle
  /\ RLIdle
  /\ defaultProvider \in DefaultChoices
  /\ allowAnonymous = FALSE
  /\ autoStartAnonymous = FALSE
  /\ registry = ProviderOrder
  /\ storedSession = [p \in Providers |-> NoStored]
  /\ snapshot = NoSnapshot
  /\ restoring = "none"
  /\ boot = NoBoot
  /\ provCalls = <<>>
  /\ pvLast = NoProvOp

SSNext ==
  \/ \E raw \in AllRawSessions, pn \in ProviderNames : SetSession(raw, pn)
  \/ \E raw \in RawChoices : SetSession(raw, "none")
  \/ CreateSnapshot
  \/ SnapshotOfUnregistered
  \/ \E q \in LinkedNames : Restore(q)
  \/ \E c \in CsrfChoices : RestoreFetchProfile(c)
  \/ \E l \in LinkedChoices : FetchProfileOk(l)
  \/ \E e \in FetchErrors, c \in CsrfChoices : FetchProfileFails(e, c)
  \/ \E c \in CsrfChoices : FetchProfileRetry(c)
  \/ \E ok \in BOOLEAN : FetchSignOutDone(ok)
  \/ RestoreDone

SpecSS == SSInit /\ [][SSNext]_vars

(***************************************************************************)
(* userState store: startAnonymousSession and convertAnonymousAccount      *)
(***************************************************************************)
\* provider?.startAnonymousSession, line 371: the Supabase provider defines
\* none, the Google and the local provider do
HasAnonymousStart(p) == p # "supabase"

\* the session localAuthProvider.startAnonymousSession() creates around the
\* fresh token t
LocalAnonymousSession(t) ==
  [access_token |-> t, provider |-> "local", isAnonymous |-> FALSE,
   user |-> [email |-> "anon@local", name |-> "none", meta |-> "none"], hint |-> "local"]

\* what provider.startAnonymousSession() does: Google's throws; the local
\* one returns its session unless localStorage.setItem throws (localOk)
AnonymousStartYields(p, localOk) == p = "local" /\ localOk

\* the loop of lines 369-392 left running after a session was adopted
RECURSIVE AnonymousLoopGoesOn(_, _, _, _, _, _)
AnonymousLoopGoesOn(i, order, st, calls, localOk, t) ==
  IF i > Len(order)
  THEN [threw |-> st.session = NoSession, calls |-> calls,
        store |-> IF st.session = NoSession
                  THEN [st EXCEPT !.errorType = "anonymous_not_allowed"] ELSE st]
  ELSE LET p == order[i]
           called == Append(calls, <<p, "startAnonymousSession">>)
           cleared == [st EXCEPT !.errorType = NoErrorType]
       IN IF ~HasAnonymousStart(p)
          THEN AnonymousLoopGoesOn(i + 1, order, st, calls, localOk, t)
          ELSE IF AnonymousStartYields(p, localOk)
          THEN AnonymousLoopGoesOn(i + 1, order,
                                   setSession(cleared, LocalAnonymousSession(t), p, "none").store,
                                   called, localOk, t)
          ELSE AnonymousLoopGoesOn(i + 1, order, cleared, called, localOk, t)

\* startAnonymousSession, lines 367-398, from the i-th registered provider on:
\* a provider without the method is passed over; the others are called under
\* withRetry, which clears the error first and, their errors not being
\* retryable, throws at once into the catch of line 385; the first session
\* returned is adopted with setSession and ends the loop; after the loop the
\* error is set and the call throws.
RECURSIVE AnonymousLoop(_, _, _, _, _, _)
AnonymousLoop(i, order, st, calls, localOk, t) ==
  IF i > Len(order)
  THEN [threw |-> TRUE, calls |-> calls,
        store |-> [st EXCEPT !.errorType = "anonymous_not_allowed"]]
  ELSE LET p == order[i]
           called == Append(calls, <<p, "startAnonymousSession">>)
           cleared == [st EXCEPT !.errorType = NoErrorType]
       IN IF ~HasAnonymousStart(p)
          THEN AnonymousLoop(i + 1, order, st, calls, localOk, t)
          ELSE IF AnonymousStartYields(p, localOk)
          THEN LET r == setSession(cleared, LocalAnonymousSession(t), p, "none")
               IN IF r.returned = "true"
                  THEN [threw |-> FALSE, calls |-> called, store |-> r.store]
                  ELSE AnonymousLoop(i + 1, order, r.store, called, localOk, t)
          ELSE AnonymousLoop(i + 1, order, cleared, called, localOk, t)

\* startAnonymousSession with lines 354-360 lost
startAnonymousSessionUnguarded(st, allow, order, localOk, t) ==
  AnonymousLoop(1, order, [st EXCEPT !.errorType = NoErrorType], <<>>, localOk, t)

\* startAnonymousSession(), lines 353-402, on the store st: whether it threw,
\* the provider methods it called, and the store afterwards
startAnonymousSession(st, allow, order, localOk, t) ==
  IF ~allow
  THEN [threw |-> TRUE, calls |-> <<>>,
        store |-> [st EXCEPT !.errorType = "anonymous_not_allowed"]]
  ELSE AnonymousLoop(1, order, [st EXCEPT !.errorType = NoErrorType], <<>>, localOk, t)

\* the application is about to call one of initialize, startAnonymousSession
\* and convertAnonymousAccount: none of them is under way
MayCall ==
  /\ pvLast.n < MaxProvOps
  /\ boot.pc = "none"

\* the application calls startAnonymousSession()
StartAnonymousSession(localOk, t) ==
  /\ StoreQuiet
  /\ MayCall
  /\ LET r == startAnonymousSession(StoreState, allowAnonymous, registry, localOk, t)
     IN /\ SetStore(r.store)
        /\ provCalls' = r.calls
        /\ pvLast' = [op |-> "startAnonymousSession",
                      returned |-> IF r.threw THEN "threw" ELSE "true",
                      arg |-> IF session = r.store.session THEN "session kept" ELSE "session set",
                      n |-> pvLast.n + 1]
  /\ UNCHANGED <<fetch, stLast, appSignOut, icOnly, cbVars, rlVars>>
  /\ UNCHANGED <<pvConfig, snapshot, restoring, boot>>

\* convertAnonymousAccount with lines 406-412 lost: a session that is not
\* anonymous goes on to the rate limiter and the provider
IsAnonymousAlways(sess) == TRUE

\* isAnonymous: normalizedSession.value?.isAnonymous || false
IsAnonymous(sess) == sess.isAnonymous

\* the application calls convertAnonymousAccount(email, password, name),
\* lines 405-461.  Past the guard it asks checkRateLimit('signup'), then
\* calls the session's provider under the 'auth' breaker; the only provider
\* of anonymous sessions is the local one, whose convertAnonymousAccount
\* throws, and the error is set and thrown on.
ConvertAnonymousAccount ==
  /\ StoreQuiet
  /\ MayCall
  /\ IF ~IsAnonymous(session)
     THEN /\ errorType' = "anonymous_conversion_failed"
          /\ provCalls' = <<>>
          /\ pvLast' = [op |-> "convertAnonymousAccount", returned |-> "threw", arg |-> "guard",
                        n |-> pvLast.n + 1]
          /\ UNCHANGED <<rlStore, rlLast, cb, cbInflight, failRun, runFromClosed, hoRun, cbLast>>
     ELSE LET o == RateLimitOutcome("signup", rlEnabled, rlStore["signup"], now, "none")
          IN /\ rlStore' = [rlStore EXCEPT !["signup"] = o.data]
             /\ rlLast' = [action |-> "signup", allowed |-> o.allowed, touched |-> o.touched,
                           threw |-> o.threw, stored |-> o.data # rlStore["signup"]]
             /\ IF ~o.allowed
                THEN /\ errorType' = "rate_limited"
                     /\ provCalls' = <<>>
                     /\ pvLast' = [op |-> "convertAnonymousAccount", returned |-> "threw",
                                   arg |-> "rate limited", n |-> pvLast.n + 1]
                     /\ UNCHANGED <<cb, cbInflight, failRun, runFromClosed, hoRun, cbLast>>
                ELSE IF ~WAllows(World, "auth", now)
                THEN /\ errorType' = "anonymous_conversion_failed"
                     /\ provCalls' = <<>>
                     /\ pvLast' = [op |-> "convertAnonymousAccount", returned |-> "threw",
                                   arg |-> "breaker refused", n |-> pvLast.n + 1]
                     /\ SetWorld(WCall(World, "auth", now))
                ELSE /\ errorType' = "anonymous_conversion_failed"
                     /\ provCalls' = <<<<session.provider, "convertAnonymousAccount">>>>
                     /\ pvLast' = [op |-> "convertAnonymousAccount", returned |-> "threw",
                                   arg |-> "provider threw", n |-> pvLast.n + 1]
                     /\ SetWorld(WDone(WCall(World, "auth", now), "auth", FALSE, now))
  /\ UNCHANGED <<session, profile, linkedProviders, authorization, failureCount, fetch, stLast>>
  /\ UNCHANGED <<appSignOut, icOnly, now, ticks, cbEnabled, rlEnabled, rlHist, rlCalls, rlFaulted>>
  /\ UNCHANGED <<pvConfig, snapshot, restoring, boot>>

(***************************************************************************)
(* userState store: initialize                                             *)
(***************************************************************************)
\* initialize(), line 543: sessionHealth.failureCount >= 3
InitFailureLimit == 3

\* the raw session provider p has in store around token t
StoredRaw(p, t) ==
  CHOOSE r \in RawSessions(p) : r.access_token = t /\ (p = "supabase" => r.user.meta = "Ann Lee")

\* initialize() with line 551 lost: a session found does not end the loop
InitFoundGoesOn(p) == "next"

\* initialize(), lines 550-552: a session adopted ends the loop
InitFound(p) == "return"

\* initialize(), lines 530-560, from the i-th registered provider on, up to
\* the fetchProfile() it awaits or to its end.  Each provider's
\* getStoredSession runs once under the 'auth' breaker (withRetry with one
\* attempt, which clears the error first); a refusal of the breaker and an
\* error of the provider are caught at line 554 and the loop goes on.  A
\* session found is adopted with setSession; when that succeeds the loop stops:
\* at "adopted" for a session that is not anonymous, whose profile is fetched
\* next, at "return" otherwise.
RECURSIVE InitLoop(_, _, _, _, _, _)
InitLoop(i, order, st, w, calls, def) ==
  IF i > Len(order)
  THEN [pc |-> "end", idx |-> i, store |-> st, w |-> w, calls |-> calls]
  ELSE LET p == order[i]
           cleared == [st EXCEPT !.errorType = NoErrorType]
           called == Append(calls, <<p, "getStoredSession">>)
           w1 == WCall(w, "auth", now)
           found == storedSession[p]
       IN IF ~WAllows(w, "auth", now)
          THEN InitLoop(i + 1, order, cleared, w1, calls, def)
          ELSE IF found.kind = "throws"
          THEN InitLoop(i + 1, order, cleared, WDone(w1, "auth", FALSE, now), called, def)
          ELSE IF found.kind = "none"
          THEN InitLoop(i + 1, order, cleared, WDone(w1, "auth", TRUE, now), called, def)
          ELSE LET r == setSession(cleared, StoredRaw(p, found.token), p, def)
                   w2 == WDone(w1, "auth", TRUE, now)
               IN IF r.returned = "true" /\ InitFound(p) = "return"
                  THEN [pc |-> IF IsAnonymous(r.store.session) THEN "return" ELSE "adopted",
                        idx |-> i, store |-> r.store, w |-> w2, calls |-> called]
                  ELSE InitLoop(i + 1, order, r.store, w2, called, def)

\* initialize() from where InitLoop left it.  After the loop, lines 563-572:
\* with no session and autoStartAnonymous, startAnonymousSession() is tried and
\* what it throws is swallowed.
InitApply(l, n, localOk, t) ==
  /\ SetWorld(l.w)
  /\ IF l.pc = "adopted"
     THEN /\ SetStore(l.store)
          /\ provCalls' = l.calls
          /\ boot' = [pc |-> "adopted", idx |-> l.idx]
          /\ pvLast' = [op |-> "initialize", returned |-> "pending",
                        arg |-> l.store.session.provider, n |-> n]
     ELSE IF l.pc = "return"
     THEN /\ SetStore(l.store)
          /\ provCalls' = l.calls
          /\ boot' = NoBoot
          /\ pvLast' = [op |-> "initialize", returned |-> "returned",
                        arg |-> l.store.session.provider, n |-> n]
     ELSE IF l.store.session = NoSession /\ autoStartAnonymous
     THEN LET a == startAnonymousSession(l.store, allowAnonymous, registry, localOk, t)
          IN /\ SetStore(a.store)
             /\ provCalls' = l.calls \o a.calls
             /\ boot' = NoBoot
             /\ pvLast' = [op |-> "initialize", returned |-> "returned",
                           arg |-> IF a.threw THEN "anonymous failed" ELSE "anonymous",
                           n |-> n]
     ELSE /\ SetStore(l.store)
          /\ provCalls' = l.calls
          /\ boot' = NoBoot
          /\ pvLast' = [op |-> "initialize", returned |-> "returned", arg |-> "none",
                        n |-> n]
  /\ UNCHANGED <<fetch, icOnly, now, ticks, cbEnabled, rlVars, pvConfig, snapshot, restoring>>

\* the application calls initialize(), lines 522-529
Initialize(localOk, t) ==
  /\ StoreQuiet
  /\ MayCall
  /\ InitApply(InitLoop(1, registry, [StoreState EXCEPT !.errorType = NoErrorType], World, <<>>,
                        defaultProvider),
               pvLast.n + 1, localOk, t)
  /\ UNCHANGED <<stLast, appSignOut>>

\* initialize(), line 542: fetchProfile() for the session just adopted
InitFetchProfile(csrf) ==
  /\ boot.pc = "adopted"
  /\ FetchAttempt(1, csrf)
  /\ boot' = [boot EXCEPT !.pc = "fetching"]
  /\ UNCHANGED <<appSignOut, icOnly, now, ticks, cbEnabled, rlVars>>
  /\ UNCHANGED <<pvConfig, snapshot, restoring, provCalls, pvLast>>

\* the store once signOut() has run to its end, lines 485-497
SignedOutStore ==
  [session |-> NoSession, profile |-> Null, linkedProviders |-> {}, authorization |-> 0,
   errorType |-> NoErrorType, failureCount |-> 0]

\* initialize(), lines 543-552, once the fetchProfile() it awaited has
\* returned: when that failed with the failure count at the limit, signOut()
\* and on to the next provider; otherwise the session adopted stays and
\* initialize() returns.
InitAfterFetch(csrf, ok, localOk, t) ==
  /\ boot.pc = "fetching"
  /\ fetch.pc = "none"
  /\ IF ~(stLast.op = "fetchProfile" /\ stLast.ok) /\ failureCount >= InitFailureLimit
     THEN LET so == SignOutStart(session, World, csrf)
              fin == IF so.pending = "none" THEN so ELSE SignOutEnd(session, so.w, ok)
          IN /\ InitApply(InitLoop(boot.idx + 1, registry, SignedOutStore, fin.w, provCalls,
                                   defaultProvider),
                          pvLast.n, localOk, t)
             /\ stLast' = Did("signOut", TRUE, fin.note)
     ELSE /\ boot' = NoBoot
          /\ pvLast' = [op |-> "initialize", returned |-> "returned", arg |-> session.provider,
                        n |-> pvLast.n]
          /\ UNCHANGED <<session, profile, linkedProviders, authorization, errorType,
                         failureCount, fetch, stLast, provCalls>>
          /\ UNCHANGED <<cb, cbInflight, failRun, runFromClosed, hoRun, cbLast>>
          /\ UNCHANGED <<icOnly, now, ticks, cbEnabled, rlVars, pvConfig, snapshot, restoring>>
  /\ UNCHANGED appSignOut

\* what a provider's getStoredSession() may yield: nothing or a session, and
\* the Supabase client's getSession() may throw (the other two catch)
StoredSessionChoices(p) ==
  {NoStored, [kind |-> "session", token |-> 1]}
    \cup (IF p = "supabase" THEN {[kind |-> "throws", token |-> 0]} ELSE {})

\* orders in which the application's imports may load the provider modules:
\* each provider comes first, second and last in one of them
RegistryOrders ==
  {<<"supabase", "google", "local">>, <<"google", "local", "supabase">>,
   <<"local", "supabase", "google">>}

\* the token localAuthProvider.startAnonymousSession() makes up
AnonTokens == {2}

(***************************************************************************)
(* Start-up and the anonymous sessions on their own: initialize,           *)
(* startAnonymousSession and convertAnonymousAccount called one after the   *)
(* other, under every configuration, registration order and set of stored  *)
(* sessions, as the clock advances.                                        *)
(***************************************************************************)
INInit ==
  /\ now = NowInit
  /\ ticks = 0
  /\ cbEnabled = TRUE
  /\ \E b \in {CBFresh, CBOpened} : cb = [n \in CBNames |-> IF n = "auth" THEN b ELSE CBFresh]
  /\ cbInflight = [n \in CBNames |-> 0]
  /\ failRun = [n \in CBNames |-> 0]
  /\ runFromClosed = [n \in CBNames |-> FALSE]
  /\ hoRun = [n \in CBNames |-> 0]
  /\ cbLast = NoEvent
  /\ StoreIdle
  /\ RLIdle
  /\ defaultProvider = "supabase"
  /\ allowAnonymous \in BOOLEAN
  /\ autoStartAnonymous \in BOOLEAN
  /\ registry \in RegistryOrders
  /\ \E s \in StoredSessionChoices("supabase"), g \in StoredSessionChoices("google"),
        l \in StoredSessionChoices("local") :
       storedSession = [p \in Providers |-> IF p = "supabase" THEN s
                                            ELSE IF p = "google" THEN g ELSE l]
  /\ snapshot = NoSnapshot
  /\ restoring = "none"
  /\ boot = NoBoot
  /\ provCalls = <<>>
  /\ pvLast = NoProvOp

\* Date.now() moves on by more than the breakers' timeout between two calls
INTick ==
  /\ ticks < MaxINTicks
  /\ boot.pc = "none"
  /\ now' = now + CBTimeout + 1
  /\ ticks' = ticks + 1
  /\ UNCHANGED <<cbEnabled, cb, cbInflight, failRun, runFromClosed, hoRun, cbLast>>
  /\ UNCHANGED <<icVars, rlVars, pvVars>>

INNext ==
  \/ \E localOk \in BOOLEAN, t \in AnonTokens : Initialize(localOk, t)
  \/ \E c \in CsrfChoices : InitFetchProfile(c)
  \/ \E l \in LinkedChoices : FetchProfileOk(l)
  \/ \E e \in FetchErrors, c \in CsrfChoices : FetchProfileFails(e, c)
  \/ \E c \in CsrfChoices : FetchProfileRetry(c)
  \/ \E c \in CsrfChoices, ok \in BOOLEAN, localOk \in BOOLEAN, t \in AnonTokens :
       InitAfterFetch(c, ok, localOk, t)
  \/ \E localOk \in BOOLEAN, t \in AnonTokens : StartAnonymousSession(localOk, t)
  \/ ConvertAnonymousAccount
  \/ INTick

SpecIN == INInit /\ [][INNext]_vars

(***************************************************************************)
(* interceptor.js: the refresh queue on its own.  Requests that fail with  *)
(* 401 while a refresh is in progress subscribe, in any order; the refresh *)
(* then succeeds or fails.  rqLog keeps what happened, in order.           *)
(***************************************************************************)
\* the requests that may fail with 401 while a refresh is in progress
QIds == 1..MaxQueued

\* what rqLog keeps: a subscription, a replay (axios.request called by a
\* subscribed callback), and the end of a refresh
RQEvent(ev, id) == [ev |-> ev, id |-> id]

\* refreshSubscribers.forEach running from the last callback to the first
ForEachBackwards(subs, i, log) ==
  [k \in 1..(Len(log) + Len(subs)) |->
     IF k <= Len(log) THEN log[k] ELSE RQEvent("replay", subs[Len(subs) - (k - Len(log)) + 1])]

\* refreshSubscribers.forEach(callback => callback(token)), line 138, from
\* index i on: each callback sets its header and calls axios.request
RECURSIVE ForEach(_, _, _)
ForEach(subs, i, log) ==
  IF i > Len(subs) THEN log
  ELSE ForEach(subs, i + 1, Append(log, RQEvent("replay", subs[i])))

\* onTokenRefreshed(token), lines 137-140: the callbacks run, the list is
\* emptied
onTokenRefreshed(subs, log) == [subs |-> <<>>, log |-> ForEach(subs, 1, log)]

\* refreshes ended so far
RQCycles == Cardinality({k \in 1..Len(rqLog) : rqLog[k].ev \in {"refreshed", "failed"}})

\* the rest of the model stands still while the queue is exercised
RQFrame ==
  UNCHANGED <<cbVars, rlVars, pvVars, session, stVars, req, call, appSignOut, dupCall,
              staleReplay, authMeRefreshed, retryRun>>

\* handleTokenRefresh, line 155: a request's 401 starts a refresh
RQStart ==
  /\ ~isRefreshing
  /\ RQCycles < MaxCycles
  /\ isRefreshing' = TRUE
  /\ UNCHANGED <<refreshSubscribers, rqLog>>
  /\ RQFrame

\* handleTokenRefresh, lines 146-152: request r fails with 401 during the
\* refresh and subscribes; its promise is pending, so it is queued once
RQSubscribe(r) ==
  /\ ShouldQueue
  /\ ~InSeq(r, refreshSubscribers)
  /\ refreshSubscribers' = subscribeTokenRefresh(refreshSubscribers, r)
  /\ rqLog' = Append(rqLog, RQEvent("subscribe", r))
  /\ UNCHANGED isRefreshing
  /\ RQFrame

\* handleTokenRefresh, lines 172-177: the refresh succeeded
RQRefreshed ==
  /\ isRefreshing
  /\ LET o == onTokenRefreshed(refreshSubscribers, rqLog)
     IN /\ refreshSubscribers' = o.subs
        /\ rqLog' = Append(o.log, RQEvent("refreshed", 0))
  /\ isRefreshing' = FALSE
  /\ RQFrame

\* handleTokenRefresh, lines 181-184: the refresh failed or timed out
RQFailed ==
  /\ isRefreshing
  /\ refreshSubscribers' = CatchSubscribers
  /\ rqLog' = Append(rqLog, RQEvent("failed", 0))
  /\ isRefreshing' = FALSE
  /\ RQFrame

RQInit ==
  /\ now = NowInit
  /\ ticks = 0
  /\ cbEnabled = TRUE
  /\ cb = [n \in CBNames |-> CBFresh]
  /\ cbInflight = [n \in CBNames |-> 0]
  /\ failRun = [n \in CBNames |-> 0]
  /\ runFromClosed = [n \in CBNames |-> FALSE]
  /\ hoRun = [n \in CBNames |-> 0]
  /\ cbLast = NoEvent
  /\ ICIdle
  /\ RLIdle

RQNext ==
  \/ RQStart
  \/ \E r \in QIds : RQSubscribe(r)
  \/ RQRefreshed
  \/ RQFailed

SpecRQ == RQInit /\ [][RQNext]_vars

(***************************************************************************)
(* userState store: withRetry on its own.  withRetry(operation, name,      *)
(* maxRetries) is called with every budget, under a breaker ('profile') or *)
(* under none ('anonymous'); the operation returns or throws any error,    *)
(* the backoff timer fires, the clock advances between calls.              *)
(***************************************************************************)
\* maxRetries as callers pass it: 1 (signOut, initialize), the default 3, and
\* the values around them
RetryBudgets == {0, 1, 2, 3}

\* operationName: one with a circuit breaker, one without
RetryNames == {"profile", "anonymous"}

\* what the operation may throw
RetryErrors ==
  {HttpError(401), HttpError(404), HttpError(429), HttpError(500), NoResponseError(TRUE),
   NoResponseError(FALSE)}

\* new Error(`Circuit breaker is open for ${name}`): no code, no response, no
\* 'timeout' in the message
CircuitOpenError == NoResponseError(FALSE)

\* withRetry, line 129: circuitBreakers[operationName]
HasBreaker(name) == name \in CBNames

\* withRetry's catch, lines 134-164, in pass run.attempt of the loop, for the
\* error e, thrown by the operation (op) or by the breaker: lastError = e, then
\* throw it, or wait for the backoff timer
WithRetryCatch(run, e, op) ==
  LET r == [run EXCEPT !.caught = Append(@, [err |-> e, op |-> op])]
  IN IF ~IsRetryable(e) \/ r.attempt = r.maxRetries
     THEN [r EXCEPT !.pc = "threw", !.out = [kind |-> "error", err |-> e]]
     ELSE [r EXCEPT !.pc = "backoff"]

\* one pass of withRetry's loop up to `await operation()`, lines 124-132: an
\* open breaker throws without invoking the operation
WithRetryAttempt(run) ==
  IF HasBreaker(run.name) /\ ~WAllows(World, run.name, now)
  THEN /\ retryRun' = WithRetryCatch(run, CircuitOpenError, FALSE)
       /\ SetWorld(WCall(World, run.name, now))
  ELSE /\ retryRun' = [run EXCEPT !.pc = "calling", !.invoked = @ + 1]
       /\ IF HasBreaker(run.name)
          THEN SetWorld(WCall(World, run.name, now))
          ELSE UNCHANGED <<cb, cbInflight, failRun, runFromClosed, hoRun, cbLast>>

\* what withRetry's steps leave alone
WithRetryFrame ==
  UNCHANGED <<now, ticks, cbEnabled, rlVars, pvVars, session, stVars, isRefreshing,
              refreshSubscribers, req, call, appSignOut, dupCall, staleReplay,
              authMeRefreshed, rqLog>>

\* withRetry(operation, name, m) is called, lines 120-123: with m < 1 the loop
\* is not entered and line 168 throws lastError, which is undefined
WithRetryCall(name, m) ==
  /\ retryRun.pc \in {"none", "returned", "threw"}
  /\ retryRun.n < MaxRetryRuns
  /\ LET run == [pc |-> "calling", name |-> name, maxRetries |-> m, attempt |-> 1,
                 invoked |-> 0, caught |-> <<>>, out |-> NoOutcome, n |-> retryRun.n + 1]
     IN IF m < 1
        THEN /\ retryRun' = [run EXCEPT !.pc = "threw", !.attempt = 0,
                                        !.out = [kind |-> "undefined", err |-> NoError]]
             /\ UNCHANGED <<cb, cbInflight, failRun, runFromClosed, hoRun, cbLast>>
        ELSE WithRetryAttempt(run)
  /\ WithRetryFrame

\* the operation resolves: withRetry returns its value (lines 130, 132)
WithRetryOpReturns ==
  /\ retryRun.pc = "calling"
  /\ retryRun' = [retryRun EXCEPT !.pc = "returned", !.out = [kind |-> "value", err |-> NoError]]
  /\ IF HasBreaker(retryRun.name)
     THEN SetWorld(WDone(World, retryRun.name, TRUE, now))
     ELSE UNCHANGED <<cb, cbInflight, failRun, runFromClosed, hoRun, cbLast>>
  /\ WithRetryFrame

\* the operation rejects with e
WithRetryOpThrows(e) ==
  /\ retryRun.pc = "calling"
  /\ retryRun' = WithRetryCatch(retryRun, e, TRUE)
  /\ IF HasBreaker(retryRun.name)
     THEN SetWorld(WDone(World, retryRun.name, FALSE, now))
     ELSE UNCHANGED <<cb, cbInflight, failRun, runFromClosed, hoRun, cbLast>>
  /\ WithRetryFrame

\* the backoff timer fires (line 164): attempt++ and the next pass
WithRetryBackoffDone ==
  /\ retryRun.pc = "backoff"
  /\ retryRun.attempt + 1 <= retryRun.maxRetries
  /\ WithRetryAttempt([retryRun EXCEPT !.attempt = @ + 1])
  /\ WithRetryFrame

\* Date.now() moves on by more than the breakers' timeout
WithRetryTick ==
  /\ ticks < MaxRetryTicks
  /\ now' = now + CBTimeout + 1
  /\ ticks' = ticks + 1
  /\ UNCHANGED <<cbEnabled, cb, cbInflight, failRun, runFromClosed, hoRun, cbLast>>
  /\ UNCHANGED <<icVars, rlVars, pvVars>>

WRInit ==
  /\ now = NowInit
  /\ ticks = 0
  /\ cbEnabled = TRUE
  /\ cb = [n \in CBNames |-> CBFresh]
  /\ cbInflight = [n \in CBNames |-> 0]
  /\ failRun = [n \in CBNames |-> 0]
  /\ runFromClosed = [n \in CBNames |-> FALSE]
  /\ hoRun = [n \in CBNames |-> 0]
  /\ cbLast = NoEvent
  /\ ICIdle
  /\ RLIdle

\* the operation settling and the timer firing
WithRetrySettles ==
  \/ WithRetryOpReturns
  \/ \E e \in RetryErrors : WithRetryOpThrows(e)
  \/ WithRetryBackoffDone

WRNext ==
  \/ \E name \in RetryNames, m \in RetryBudgets : WithRetryCall(name, m)
  \/ WithRetryOpReturns
  \/ \E e \in RetryErrors : WithRetryOpThrows(e)
  \/ WithRetryBackoffDone
  \/ WithRetryTick

SpecWR == WRInit /\ [][WRNext]_vars

\* the operation is a request with a timeout and the backoff is a timer: each
\* settles once it is awaited
FairWR == SpecWR /\ WF_vars(WithRetrySettles)

(***************************************************************************)
(* The circuit breaker on its own: one breaker driven by arbitrary         *)
(* operations, resets and the clock.                                       *)
(***************************************************************************)
\* the breakers as constructed (config.enabled either way), nothing else running
CBInit ==
  /\ now = NowInit
  /\ ticks = 0
  /\ cbEnabled \in BOOLEAN
  /\ cb = [n \in CBNames |-> CBFresh]
  /\ cbInflight = [n \in CBNames |-> 0]
  /\ failRun = [n \in CBNames |-> 0]
  /\ runFromClosed = [n \in CBNames |-> FALSE]
  /\ hoRun = [n \in CBNames |-> 0]
  /\ cbLast = NoEvent
  /\ ICIdle
  /\ RLIdle

CBNext ==
  \/ CBExecute("auth") /\ UNCHANGED icVars
  \/ CBOpSucceeds("auth") /\ UNCHANGED icVars
  \/ CBOpFails("auth") /\ UNCHANGED icVars
  \/ CBReset("auth") /\ UNCHANGED icVars
  \/ Tick /\ UNCHANGED icVars

SpecCB == CBInit /\ [][CBNext]_vars

(***************************************************************************)
(* The retry policy on its own: one request of a signed-out application    *)
(* failing in every way, retried by the response interceptor, as the clock *)
(* advances.                                                               *)
(***************************************************************************)
\* status codes of error responses, some of each category and both sides of
\* the retryable set
RTStatuses == {304, 400, 401, 403, 404, 408, 429, 500, 501, 503}

\* Retry-After values a server may send: seconds, or a date relative to now
RetryAfters ==
  {NoRetryAfter}
    \cup {[form |-> "seconds", v |-> x] : x \in {0, 1, 45, 120}}
    \cup {[form |-> "date", v |-> now + x] : x \in {20000, 90000}}

\* what may come back for a request that fails
RTResponses ==
  {NoResponseError(b) : b \in BOOLEAN}
    \cup {HttpError(st) : st \in RTStatuses}
    \cup {[HttpError(st) EXCEPT !.retryAfter = ra] : st \in {429, 503}, ra \in RetryAfters}

\* Math.random() * 200 lies in [0, 200)
Jitters == {0, 100, 199}

\* config._noRetry set by the caller or not
RTKinds == {[authMe |-> FALSE, skipAuth |-> FALSE, noRetry |-> b] : b \in BOOLEAN}

\* the errors the retry policy may be asked about
RTErrors == {[resp EXCEPT !.noRetry = b] : resp \in RTResponses, b \in BOOLEAN}

RTInit ==
  /\ now = NowInit
  /\ ticks = 0
  /\ cbEnabled = TRUE
  /\ cb = [n \in CBNames |-> CBFresh]
  /\ cbInflight = [n \in CBNames |-> 0]
  /\ failRun = [n \in CBNames |-> 0]
  /\ runFromClosed = [n \in CBNames |-> FALSE]
  /\ hoRun = [n \in CBNames |-> 0]
  /\ cbLast = NoEvent
  /\ ICIdle
  /\ RLIdle

RTNext ==
  \/ \E k \in RTKinds : Issue(1, k)
  \/ RespondOk(1)
  \/ \E resp \in RTResponses, j \in Jitters : RespondError(1, resp, j)
  \/ RetryFire(1)
  \/ Tick /\ UNCHANGED icVars

SpecRT == RTInit /\ [][RTNext]_vars

(***************************************************************************)
(* The rate limiter on its own: checkRateLimit called for configured and   *)
(* unconfigured actions as the clock advances, with a storage that may     *)
(* throw, rate limiting switched on or off.                                *)
(***************************************************************************)
RLInit ==
  /\ now = NowInit
  /\ ticks = 0
  /\ cbEnabled = TRUE
  /\ cb = [n \in CBNames |-> CBFresh]
  /\ cbInflight = [n \in CBNames |-> 0]
  /\ failRun = [n \in CBNames |-> 0]
  /\ runFromClosed = [n \in CBNames |-> FALSE]
  /\ hoRun = [n \in CBNames |-> 0]
  /\ cbLast = NoEvent
  /\ ICIdle
  /\ rlEnabled \in BOOLEAN
  /\ RLFresh

RLNext ==
  \/ \E a \in RLActions, f \in RLFaults : checkRateLimit(a, f)
  \/ RLTick

SpecRL == RLInit /\ [][RLNext]_vars

(***************************************************************************)
(* Claims about the interceptor's token refresh                            *)
(***************************************************************************)
\* C1: when one request has started a token refresh and further requests fail
\* with 401 (token present, _skipAuth unset, not /auth/me) while it is in
\* progress, none of them calls handleTokenExpiry: no call is ever made while
\* a refresh is in progress, at most one request awaits a refresh, and a
\* queued request has no call of its own.
C1_OneExpiryCallPerGroup ==
  /\ ~dupCall
  /\ Cardinality({s \in Reqs : req[s].pc = "awaitRace"}) <= 1
  /\ \A r \in Reqs : req[r].pc = "queued" => call[r] = "none"

\* a refresh in progress with its one call pending and another request queued on it
C1_Witness ==
  \E s, r \in Reqs :
    /\ req[s].pc = "awaitRace" /\ call[s] # "none"
    /\ req[r].pc = "queued" /\ req[r].queuedOn = s
    /\ Cardinality({x \in Reqs : call[x] # "none"}) = 1

\* C2: when the refresh in progress fails or times out, every request queued
\* on it is rejected; no queued request is left pending forever.  As a state
\* predicate: a request still waiting in the queue is held by a refresh in
\* progress, the only thing that can ever settle it.
C2_QueuedSettleOnFailure ==
  \A r \in Reqs :
    req[r].pc = "queued" => (isRefreshing /\ InSeq(r, refreshSubscribers))

\* C3: when the refresh in progress succeeds, every request queued on it is
\* replayed exactly once (its callback is in the list once, the request is
\* sent, the list is emptied), with the header of the store's token after the
\* refresh.
C3_QueuedReplayedOnce ==
  [][\A s \in Reqs :
       (req[s].pc = "awaitRace" /\ req'[s].pc = "inflight")
         => /\ ~staleReplay'
            /\ refreshSubscribers' = <<>>
            /\ \A r \in Reqs :
                 (req[r].pc = "queued" /\ req[r].queuedOn = s)
                   => (Count(r, refreshSubscribers) = 1 /\ req'[r].pc = "inflight")]_vars

\* a request that was queued is on the wire again after a successful refresh
C3_Witness ==
  \E r \in Reqs :
    /\ req[r].pc = "inflight" /\ req[r].queuedOn # 0
    /\ ~isRefreshing /\ refreshSubscribers = <<>>
    /\ session.access_token # 0

\* C4: in every reachable state at most one handleTokenExpiry call started
\* by the interceptor is in flight.
C4_AtMostOneCallInFlight ==
  Cardinality({r \in Reqs : call[r] # "none"}) <= 1

\* C5: a provider refresh call that completes after the interceptor's timeout
\* fired is discarded: the store's session stays as it was.
C5_LateCompletionDiscarded ==
  [][\A r \in Reqs :
       (call[r] # "none" /\ req[r].pc # "awaitRace" /\ call'[r] = "none")
         => session' = session]_vars

\* C6: on the refresh failure / timeout path the flag is false and the list
\* is empty when the store's sign-out starts, which is before (or when) the
\* rejection reaches the caller.
C6_ClearedBeforeSignOut ==
  [][\A r \in Reqs :
       (/\ req[r].pc \in {"inflight", "awaitRace"}
        /\ req'[r].pc \in {"signOutRefresh", "rejected"}
        /\ req'[r].err = "refresh_error")
         => (~isRefreshing' /\ refreshSubscribers' = <<>>)]_vars

\* a failed refresh that had a request queued on it awaits the sign-out, with
\* the flag and the list cleared
C6_Witness ==
  \E r, q \in Reqs :
    /\ req[r].pc = "signOutRefresh"
    /\ req[q].pc = "queued" /\ req[q].queuedOn = 0
    /\ ~isRefreshing /\ refreshSubscribers = <<>>

\* C7: whenever a refresh fails or times out, the store is signed out when
\* the rejection is delivered to the request that started the refresh.
C7_SignedOutAtRejection ==
  [][\A r \in Reqs :
       (req[r].pc # "rejected" /\ req'[r].pc = "rejected" /\ req'[r].err = "refresh_error")
         => session' = NoSession]_vars

\* the starter of a failed refresh has been rejected after a sign-out that
\* awaited the provider, and the store is signed out
C7_Witness ==
  \E r \in Reqs :
    /\ req[r].pc = "rejected" /\ req[r].err = "refresh_error"
    /\ session = NoSession
    /\ cbLast.ev = "reset" /\ appSignOut = "none"

\* C8: a 401 from /auth/me with a token in the store and _skipAuth unset signs
\* the store out, is never handed to the token refresh (no handleTokenExpiry),
\* is never replayed, and is rejected with the original error.
C8_ValidationEndpointSignsOut ==
  [][/\ ~authMeRefreshed'
     /\ \A r \in Reqs :
          /\ (/\ req[r].pc = "inflight" /\ req[r].authMe /\ ~req[r].skipAuth
              /\ session.access_token # 0
              /\ req'[r].pc \notin {"inflight", "resolved"})
               => /\ call' = call
                  /\ \/ req'[r].pc = "signOutAuthMe"
                     \/ /\ req'[r].pc = "rejected" /\ req'[r].err = "original"
                        /\ session' = NoSession
          /\ (req[r].pc = "signOutAuthMe" /\ req'[r].pc # "signOutAuthMe")
               => /\ req'[r].pc = "rejected" /\ req'[r].err = "original"
                  /\ session' = NoSession]_vars

\* the /auth/me request has been rejected with its own error, the store is
\* signed out and no handleTokenExpiry call was made
C8_Witness ==
  \E r \in Reqs :
    /\ req[r].pc = "rejected" /\ req[r].err = "original"
    /\ session = NoSession
    /\ \A x \in Reqs : call[x] = "none"

(***************************************************************************)
(* Claims about the circuit breaker                                        *)
(***************************************************************************)
\* C9: once an enabled breaker has seen `threshold` consecutive failed
\* operations starting from closed, every execute() call made while
\* now - lastFailureTime <= timeout is refused with the circuit-open error and
\* the wrapped operation is not invoked.
C9_OpenDeniesCalls ==
  (cbEnabled /\ cbLast.ev = "call" /\ cbLast.preSeen /\ cbLast.preWithin)
    => (cbLast.denied /\ ~cbLast.invoked)

\* a call refused at the very end of the timeout window, after threshold failures
C9_Witness ==
  /\ cbEnabled /\ cbLast.ev = "call" /\ cbLast.preSeen /\ cbLast.denied
  /\ cb["auth"].state = "open"
  /\ now - cb["auth"].lastFailureTime = CBTimeout

\* C10: from half-open, the success that completes `halfOpenRequests`
\* consecutive successes closes the breaker with failure count 0; after fewer
\* successes the breaker is still half-open.
C10_HalfOpenQuorum ==
  (cbLast.ev = "success" /\ cbLast.preState = "half-open")
    => IF hoRun[cbLast.name] >= CBHalfOpenRequests
       THEN cb[cbLast.name].state = "closed" /\ cb[cbLast.name].failures = 0
       ELSE cb[cbLast.name].state = "half-open"

\* the third success in half-open has just closed the breaker
C10_Witness ==
  /\ cbLast.ev = "success" /\ cbLast.preState = "half-open"
  /\ hoRun["auth"] = CBHalfOpenRequests
  /\ cb["auth"].state = "closed"

\* C11: a failure of the wrapped operation observed while the (enabled)
\* breaker is half-open leaves it open with lastFailureTime the time of that
\* failure: one failure reopens it.
C11_HalfOpenFailureReopens ==
  [][\A n \in CBNames :
       (/\ cbEnabled /\ cb[n].state = "half-open"
        /\ cbInflight'[n] < cbInflight[n]
        /\ cbLast'.ev = "failure" /\ cbLast'.name = n)
         => (cb'[n].state = "open" /\ cb'[n].lastFailureTime = now)]_vars

\* the breaker reopened by a failure seen in half-open, later than its first opening
C11_Witness ==
  /\ cbEnabled /\ cbLast.ev = "failure" /\ cbLast.preState = "half-open"
  /\ cb["auth"].state = "open" /\ cb["auth"].lastFailureTime = now
  /\ now > NowInit + CBTimeout

(***************************************************************************)
(* Claims about the retry policy                                           *)
(***************************************************************************)
\* C12: whatever the failures of a request, it is replayed by the retry policy
\* at most maxRetries times, and shouldRetry is false once retryCount >=
\* maxRetries, for a request marked _noRetry, and for a network error once
\* retryCount >= networkErrorRetries: both for the retries the interceptor
\* made and for the function on every error and count.
C12_RetryBudget ==
  /\ \A r \in Reqs :
       /\ req[r].retryCount <= maxRetries
       /\ req[r].pc = "retryWait"
            => /\ req[r].retryCount - 1 < maxRetries
               /\ ~req[r].error.noRetry
               /\ categorizeError(req[r].error) = "network_error"
                    => req[r].retryCount - 1 < networkErrorRetries
  /\ \A e \in RTErrors, n \in 0..(maxRetries + 1) :
       (\/ n >= maxRetries
        \/ e.noRetry
        \/ (categorizeError(e) = "network_error" /\ n >= networkErrorRetries))
         => ~shouldRetry(e, n)

\* a request given up after maxRetries replays on a timeout, which is
\* retryable below the cap
C12_Witness ==
  \E r \in Reqs :
    /\ req[r].pc = "rejected" /\ req[r].err = "final"
    /\ req[r].retryCount = maxRetries
    /\ categorizeError(req[r].error) = "timeout_error" /\ ~req[r].error.noRetry

C14_DelayMonotoneAsStated ==
  [][\A r \in Reqs :
       (/\ req[r].pc = "inflight" /\ req'[r].pc = "retryWait"
        /\ req[r].retryCount >= 1
        /\ categorizeError(req'[r].error) = categorizeError(req[r].error)
        /\ req[r].jitter = 0 /\ req'[r].jitter = 0)
         => req'[r].delay >= req[r].delay]_vars

\* C14 amended: with the error itself fixed (the same Retry-After value, read
\* at the same time) and the jitter 0, the delay for retryCount n+1 is at least
\* the delay for retryCount n, for n in 1..maxRetries-1; and so are the delays
\* of two successive retries of a request after the same error, when that
\* error carries no Retry-After date.
C14_DelayMonotone ==
  [][/\ \A e \in RTErrors, n \in 1..(maxRetries - 1) :
          getRetryDelay(e, n + 1, now, 0) >= getRetryDelay(e, n, now, 0)
     /\ \A r \in Reqs :
          (/\ req[r].pc = "inflight" /\ req'[r].pc = "retryWait"
           /\ req[r].retryCount >= 1
           /\ req'[r].error = req[r].error
           /\ req[r].error.retryAfter.form # "date"
           /\ req[r].jitter = 0 /\ req'[r].jitter = 0)
            => req'[r].delay >= req[r].delay]_vars

\* the second retry after the same timeout error, without jitter: twice the
\* base delay
C14_Witness ==
  \E r \in Reqs :
    /\ req[r].pc = "retryWait" /\ req[r].retryCount = 2 /\ req[r].jitter = 0
    /\ categorizeError(req[r].error) = "timeout_error"
    /\ req[r].delay = retryDelay * backoffMultiplier

\* C15: the delay the interceptor waits before a retry, jitter and
\* Retry-After included, never exceeds maxRetryDelay.
C15_DelayWithinMax ==
  \A r \in Reqs : req[r].pc = "retryWait" => req[r].delay <= maxRetryDelay

(***************************************************************************)
(* Claims about the rate limiter                                           *)
(***************************************************************************)
\* the allowed calls in H that lie less than `window` ms before time t
CountRecent(H, t, window) == Cardinality({i \in 1..Len(H) : t - H[i] < window})

\* no span shorter than `window` holds more than `max` of the allowed calls H
SpanWithinMax(H, max, window) ==
  \A i \in 1..Len(H) : Cardinality({j \in i..Len(H) : H[j] - H[i] < window}) <= max

C18_SignOutClearsStore ==
  stLast.op = "signOut"
    => /\ session = NoSession
       /\ profile = Null
       /\ linkedProviders = {}

\* signOut() of a store with a loaded profile, whose provider's signOut threw
C18_Witness ==
  /\ stLast = [op |-> "signOut", ok |-> TRUE, note |-> "provider threw", had |-> TRUE]
  /\ session = NoSession
  /\ profile = Null

\* C19: once signOut() has run to its end, and until another store operation
\* acts, each of the breakers auth, tokenRefresh and profile is closed with
\* failures = 0 and successCount = 0.
C19_SignOutResetsBreakers ==
  stLast.op = "signOut"
    => \A n \in CBNames : /\ cb[n].state = "closed"
                          /\ cb[n].failures = 0
                          /\ cb[n].successCount = 0

\* signOut() whose provider call the open 'auth' breaker refused: the last
\* breaker event is the reset of a breaker that was open
C19_Witness ==
  /\ stLast.op = "signOut"
  /\ stLast.note = "breaker refused"
  /\ cbLast.ev = "reset"
  /\ \A n \in CBNames : cb[n] = CBFresh

\* C20: setSession(null) applied to the store of any reachable state returns
\* true and yields a store with session null, profile null, linkedProviders
\* empty, no default Authorization header and no error; applied to that store
\* again it yields the same store.  And that is the store right after the
\* application called setSession(null).
C20_SetSessionNull ==
  LET r == setSessionNull(StoreState)
  IN /\ r.returned = TRUE
     /\ r.store.session = NoSession
     /\ r.store.profile = Null
     /\ r.store.linkedProviders = {}
     /\ r.store.authorization = 0
     /\ r.store.errorType = NoErrorType
     /\ setSessionNull(r.store) = r
     /\ stLast.op = "setSession(null)" => (stLast.ok /\ StoreState = r.store)

\* setSession(null) called on a store that held a session and a profile
C20_Witness ==
  /\ stLast = [op |-> "setSession(null)", ok |-> TRUE, note |-> "", had |-> TRUE]
  /\ session = NoSession
  /\ authorization = 0
  /\ profile = Null

(***************************************************************************)
(* Claims about setSession, fetchProfile and the anonymous sessions        *)
(***************************************************************************)
\* C21: setSession(raw, P) with a non-null raw whose resolved provider
\* (explicit argument, else raw._provider, else the configured default) is
\* not registered returns false, records provider_not_found and leaves the
\* store without a session -- for every raw session and provider name, on
\* the store of any reachable state.
C21_UnknownProvider ==
  \A raw \in RawChoices, pn \in ProviderNames \cup {"none"} :
    LET r == setSession(StoreState, raw, pn, defaultProvider)
    IN r.provider \notin Providers
         => /\ r.returned = "false"
            /\ r.store.errorType = "provider_not_found"
            /\ r.store.session = NoSession

\* C22: a fetchProfile() call made while the store has no token or holds an
\* anonymous session issues no request (none is in flight afterwards, the
\* 'profile' breaker is not entered), leaves session and profile unchanged,
\* and reports success.
C22_GuardedFetchSucceeds ==
  [][\A c \in CsrfChoices :
       (FetchProfileStart(c) /\ (session.access_token = 0 \/ session.isAnonymous))
         => /\ fetch' = NoFetch
            /\ cbInflight' = cbInflight
            /\ session' = session
            /\ profile' = profile
            /\ stLast'.op = "fetchProfile"
            /\ stLast'.ok]_vars

C24_AnonymousNotAllowed ==
  ~allowAnonymous
    => /\ \A localOk \in BOOLEAN, t \in AnonTokens :
            LET r == startAnonymousSession(StoreState, allowAnonymous, registry, localOk, t)
            IN /\ r.threw
               /\ r.calls = <<>>
               /\ r.store.errorType = "anonymous_not_allowed"
               /\ r.store.session = session
       /\ pvLast.op = "startAnonymousSession"
            => /\ pvLast.returned = "threw"
               /\ pvLast.arg = "session kept"
               /\ provCalls = <<>>
               /\ errorType = "anonymous_not_allowed"

\* startAnonymousSession() refused on a store that initialize() had signed in
C24_Witness ==
  /\ ~allowAnonymous
  /\ pvLast.op = "startAnonymousSession"
  /\ pvLast.returned = "threw"
  /\ session # NoSession
  /\ errorType = "anonymous_not_allowed"
  /\ provCalls = <<>>

\* the position of provider p in the registration order
RegistryIndex(order, p) == CHOOSE i \in 1..Len(order) : order[i] = p

\* the providers named in a list of calls
CalledProviders(calls) == {calls[k][1] : k \in 1..Len(calls)}

\* the registered providers whose startAnonymousSession would return a session
AnonymousYielders(order, localOk) ==
  {i \in 1..Len(order) : HasAnonymousStart(order[i]) /\ AnonymousStartYields(order[i], localOk)}

\* C25: with allowAnonymous true, startAnonymousSession() on the store of any
\* reachable state calls providers in registration order; a provider is
\* called exactly when it has the method and no provider registered before
\* it returned a session, so providers without the method are passed over,
\* failed attempts are followed by the next provider, and no provider after
\* the successful one is called; the first session returned is adopted and
\* the call returns true, and when no provider returns one it throws.
C25_AnonymousFirstSuccess ==
  allowAnonymous
    => \A localOk \in BOOLEAN, t \in AnonTokens :
         LET r == startAnonymousSession(StoreState, allowAnonymous, registry, localOk, t)
             yielders == AnonymousYielders(registry, localOk)
         IN /\ \A j, k \in 1..Len(r.calls) :
                 j < k => RegistryIndex(registry, r.calls[j][1]) < RegistryIndex(registry, r.calls[k][1])
            /\ \A i \in 1..Len(registry) :
                 registry[i] \in CalledProviders(r.calls)
                   <=> (HasAnonymousStart(registry[i]) /\ \A j \in yielders : j >= i)
            /\ IF yielders # {}
               THEN LET first == CHOOSE i \in yielders : \A j \in yielders : i <= j
                    IN /\ ~r.threw
                       /\ r.store.session = normalizeSession(registry[first], LocalAnonymousSession(t))
                       /\ r.calls[Len(r.calls)][1] = registry[first]
               ELSE /\ r.threw
                    /\ r.store.session = session

\* the local provider is registered first and has returned a session: it was
\* the only provider called, Google's method after it was not, and the store
\* holds the anonymous session
C25_Witness ==
  /\ allowAnonymous
  /\ registry[1] = "local"
  /\ pvLast.op = "startAnonymousSession"
  /\ pvLast.returned = "true"
  /\ provCalls = <<<<"local", "startAnonymousSession">>>>
  /\ session = normalizeSession("local", LocalAnonymousSession(2))

\* C26: a convertAnonymousAccount() call made while the session is not
\* anonymous, or while there is none, throws and changes neither the stored
\* rate-limit list of 'signup', nor the 'auth' breaker through which a
\* provider would be called, nor the session; no provider method is called.
C26_ConvertGuard ==
  [][(ConvertAnonymousAccount /\ ~session.isAnonymous)
       => /\ pvLast'.op = "convertAnonymousAccount"
          /\ pvLast'.returned = "threw"
          /\ rlStore' = rlStore
          /\ provCalls' = <<>>
          /\ cb' = cb
          /\ cbLast' = cbLast
          /\ session' = session]_vars

\* convertAnonymousAccount() refused on a store that holds a Supabase
\* session: nothing is stored under rate_limit_signup
C26_Witness ==
  /\ pvLast.op = "convertAnonymousAccount"
  /\ pvLast.arg = "guard"
  /\ session.provider = "supabase"
  /\ errorType = "anonymous_conversion_failed"
  /\ rlStore["signup"] = <<>>
  /\ provCalls = <<>>

\* the positions in a list of calls at which a provider was asked for its
\* stored session and had one
StoredYields(calls) ==
  {k \in 1..Len(calls) : calls[k][2] = "getStoredSession" /\ storedSession[calls[k][1]].kind = "session"}

\* C27: once initialize() has adopted a stored session -- while it awaits
\* the profile and after it has returned -- the providers it asked were asked
\* in registration order, the one whose session the store holds is the first
\* of them that had a stored session and the last one asked, and no
\* convertAnonymousAccount or startAnonymousSession was called, whatever
\* autoStartAnonymous says.
C27_InitAdoptsFirstStored ==
  (pvLast.op = "initialize" /\ StoredYields(provCalls) # {})
    => /\ \A j, k \in 1..Len(provCalls) :
            j < k => RegistryIndex(registry, provCalls[j][1]) < RegistryIndex(registry, provCalls[k][1])
       /\ \A k \in 1..Len(provCalls) : provCalls[k][2] = "getStoredSession"
       /\ StoredYields(provCalls) = {Len(provCalls)}
       /\ LET p == provCalls[Len(provCalls)][1]
          IN session = normalizeSession(p, StoredRaw(p, storedSession[p].token))

\* initialize() has returned with Google's stored session, Google being
\* registered first: the local provider, which has a stored session too, was
\* not asked, and no anonymous session was started although both flags are on
C27_Witness ==
  /\ allowAnonymous
  /\ autoStartAnonymous
  /\ registry = <<"google", "local", "supabase">>
  /\ storedSession["local"].kind = "session"
  /\ pvLast.op = "initialize"
  /\ pvLast.returned = "returned"
  /\ provCalls = <<<<"google", "getStoredSession">>>>
  /\ session.provider = "google"
  /\ profile # Null

\* C28: whenever initialize() resumes after the profile fetch for the session
\* it restored has failed, the 'profile' breaker having counted as many
\* failures as one fetch makes attempts, it signs out of that session.
C28_InitSignsOutFailedProfile ==
  [][\A c \in BOOLEAN, ok \in BOOLEAN, localOk \in BOOLEAN, t \in AnonTokens :
       (/\ InitAfterFetch(c, ok, localOk, t)
        /\ stLast.op = "fetchProfile"
        /\ ~stLast.ok
        /\ cb["profile"].failures >= maxAttempts)
         => /\ stLast'.op = "signOut"
            /\ session' # session]_vars

(***************************************************************************)
(* Claims about the linking session snapshot                               *)
(***************************************************************************)
\* restoreLinkingSessionSnapshot(store, snapshot, linked) has returned
RestoreReturned == pvLast.op = "restore" /\ pvLast.returned # "pending"

\* C29: once restore(store, create(store), null) has returned for an
\* authenticated store, it has returned true and the session's token, user,
\* provider and anonymity flag are the ones the store had at the call.
C29_SnapshotRoundTrip ==
  (RestoreReturned /\ pvLast.arg = "none" /\ pvLast.same /\ ~SnapshotIncomplete(snapshot))
    => /\ pvLast.returned = "true"
       /\ session # NoSession
       /\ session.access_token = snapshot.session.access_token
       /\ session.user = snapshot.session.user
       /\ session.provider = snapshot.session.provider
       /\ IsAnonymous(session) = IsAnonymous(snapshot.session)

\* C30: once restore has returned for a snapshot the store took under provider P, the
\* session having changed since and the provider just linked being another
\* than P, it has returned true and the store's session and current provider
\* are the snapshot's.
C30_RestoreAfterLinkingOther ==
  (/\ RestoreReturned
   /\ pvLast.arg # "none"
   /\ ~SnapshotIncomplete(snapshot)
   /\ snapshot.provider = snapshot.session.provider
   /\ pvLast.arg # snapshot.provider
   /\ ~pvLast.same)
    => /\ pvLast.returned = "true"
       /\ session = snapshot.session
       /\ session.provider = snapshot.provider

(***************************************************************************)
(* Claims about restore without a restore, the breakers, the refresh queue *)
(* and withRetry                                                           *)
(***************************************************************************)
\* restore has returned for a complete snapshot whose provider is the one
\* just linked
RestoreSkipped ==
  RestoreReturned /\ ~SnapshotIncomplete(snapshot) /\ pvLast.arg = snapshot.provider

ProfileBreakerRefuses ==
  /\ cbEnabled
  /\ cb["profile"].state = "open"
  /\ now - cb["profile"].lastFailureTime <= CBTimeout

\* C32: a fetchProfile() called for a session with a token while the
\* 'profile' breaker refuses returns false in the same step, no request in
\* flight, no backoff timer set and nothing invoked inside the breaker; and an
\* attempt that the breaker refuses after a backoff ends fetchProfile the same
\* way, without a further wait.
C32_OpenBreakerNoRequest ==
  [][/\ \A c \in BOOLEAN :
          (/\ FetchProfileStart(c)
           /\ session.access_token # 0
           /\ ~session.isAnonymous
           /\ ProfileBreakerRefuses)
            => /\ stLast' = [op |-> "fetchProfile", ok |-> FALSE, note |-> "",
                             had |-> profile # Null]
               /\ fetch' = NoFetch
               /\ cbInflight' = cbInflight
               /\ cbLast'.denied
               /\ ~cbLast'.invoked
               /\ profile' = profile
     /\ \A c \in BOOLEAN :
          (FetchProfileRetry(c) /\ ProfileBreakerRefuses)
            => /\ fetch'.pc # "backoff"
               /\ fetch'.pc # "inflight"
               /\ cbInflight' = cbInflight
               /\ stLast'.op = "fetchProfile"
               /\ ~stLast'.ok]_vars

\* fetchProfile() has just been refused by the open 'profile' breaker for the
\* third time running: the store still holds its session
C32_Witness ==
  /\ stLast.op = "fetchProfile"
  /\ ~stLast.ok
  /\ stLast.note = ""
  /\ cbLast.ev = "call"
  /\ cbLast.name = "profile"
  /\ cbLast.denied
  /\ cbLast.preState = "open"
  /\ fetch = NoFetch
  /\ failureCount = MaxFailureCount
  /\ session.access_token # 0
  /\ errorType = "profile_fetch_failed"

\* the index of the last end of a refresh before position m of rqLog, 0 when
\* there is none
PreviousEnd(m) ==
  LET E == {k \in 1..(m - 1) : rqLog[k].ev \in {"refreshed", "failed"}}
  IN IF E = {} THEN 0 ELSE CHOOSE k \in E : \A x \in E : x <= k

\* the requests of the events of kind ev in the refresh that ends at position
\* m of rqLog, in the order of the events
CycleIds(m, ev) ==
  LET seg == SelectSeq(SubSeq(rqLog, PreviousEnd(m) + 1, m - 1), LAMBDA e : e.ev = ev)
  IN [k \in 1..Len(seg) |-> seg[k].id]

\* C33: for every refresh that succeeded, the requests replayed by it, in
\* the order of the replays, are the requests that subscribed during it, in
\* the order of the subscriptions.
C33_ReplayInSubscriptionOrder ==
  \A m \in 1..Len(rqLog) :
    rqLog[m].ev = "refreshed" => CycleIds(m, "replay") = CycleIds(m, "subscribe")

\* a refresh has just succeeded on which request 3, then request 1, then
\* request 2 had subscribed, and they were replayed in that order
C33_Witness ==
  /\ Len(rqLog) > 0
  /\ rqLog[Len(rqLog)].ev = "refreshed"
  /\ CycleIds(Len(rqLog), "subscribe") = <<3, 1, 2>>
  /\ CycleIds(Len(rqLog), "replay") = <<3, 1, 2>>
  /\ refreshSubscribers = <<>>
  /\ ~isRefreshing

\* C34: when an operation settles in an enabled breaker that is closed, a
\* success leaves the breaker closed with the failure count one lower, or 0
\* when it was 0; a failure raises the count by exactly one, and the breaker
\* is closed afterwards if the new count is below the threshold and open
\* otherwise.
C34_ClosedCounting ==
  [][\A n \in CBNames :
       /\ (CBOpSucceeds(n) /\ cbEnabled /\ cb[n].state = "closed")
            => /\ cb'[n].state = "closed"
               /\ cb'[n].failures = (IF cb[n].failures = 0 THEN 0 ELSE cb[n].failures - 1)
       /\ (CBOpFails(n) /\ cbEnabled /\ cb[n].state = "closed")
            => /\ cb'[n].failures = cb[n].failures + 1
               /\ (cb'[n].failures < CBThreshold => cb'[n].state = "closed")
               /\ (cb'[n].failures >= CBThreshold => cb'[n].state = "open")]_vars

\* a success has just lowered the count of the closed 'auth' breaker, which
\* two failures and no reset had raised before, and the count is not yet 0
C34_Witness ==
  /\ cbEnabled
  /\ cbLast.ev = "success"
  /\ cbLast.name = "auth"
  /\ cbLast.preState = "closed"
  /\ cb["auth"].state = "closed"
  /\ cb["auth"].failures >= 1
  /\ cb["auth"].failures < CBThreshold

\* C38: in every reachable state, whatever operations run at the same time
\* and whenever reset() is called, each breaker's failure count is at least
\* 0; a closed breaker's count is below the threshold; an open or half-open
\* breaker's count is at least the threshold and its lastFailureTime is set.
C38_BreakerInvariant ==
  \A n \in CBNames :
    /\ cb[n].failures >= 0
    /\ cb[n].state = "closed" => cb[n].failures < CBThreshold
    /\ cb[n].state \in {"open", "half-open"}
         => (cb[n].failures >= CBThreshold /\ cb[n].lastFailureTime # Null)

\* an operation that was running when the breaker opened has succeeded since:
\* the breaker is still open, its count still at the threshold or above
C38_Witness ==
  /\ cbEnabled
  /\ cbLast.ev = "success"
  /\ cbLast.name = "auth"
  /\ cbLast.preState = "open"
  /\ cb["auth"].state = "open"
  /\ cb["auth"].failures >= CBThreshold
  /\ cb["auth"].lastFailureTime # Null

(***************************************************************************)
(* Claims about validated start-up, the cleared store, bounded refreshes,  *)
(* what restore reports and withRetry                                      *)
(***************************************************************************)
\* C35: whenever initialize() has returned with the store holding a session
\* that is not anonymous, the profile fetch for that session succeeded and
\* the profile is loaded.
C35_InitReturnsValidated ==
  (/\ pvLast.op = "initialize"
   /\ pvLast.returned = "returned"
   /\ session # NoSession
   /\ ~IsAnonymous(session))
    => /\ stLast.op = "fetchProfile"
       /\ stLast.ok
       /\ profile # Null

\* C36: in every state of the store, a null session goes with a null profile
\* and no linked providers.
C36_NullSessionClearedStore ==
  session = NoSession => (profile = Null /\ linkedProviders = {})

\* C37: every request starts only finitely many token refreshes: from some
\* point on it never again goes from a 401 into handleTokenRefresh's race.
C37_BoundedRefreshes ==
  \A r \in Reqs :
    <>[][~(req[r].pc # "awaitRace" /\ req'[r].pc = "awaitRace")]_vars

\* C39: whenever restoreLinkingSessionSnapshot has returned true, the store's
\* session is the snapshot's session.
C39_RestoreTrueMeansRestored ==
  (RestoreReturned /\ pvLast.returned = "true") => session = snapshot.session

\* what the claim calls a retryable failure: a timeout, a status of 500 or
\* more, or 429
RetryableFailure(e) ==
  \/ e.timeoutLike
  \/ e.hasResponse /\ e.status >= 500
  \/ e.hasResponse /\ e.status = 429

\* the withRetry call followed has kept to its budget so far: the operation
\* was invoked at most maxRetries times (at most once with maxRetries = 1);
\* every error after which another pass began was a retryable failure of the
\* operation; a call that returned gave the operation's value, a call that
\* threw threw the last error it caught (undefined when it caught none)
WithRetryWithinBudget ==
  LET R == retryRun
      L == Len(R.caught)
  IN /\ R.invoked <= R.maxRetries
     /\ R.maxRetries = 1 => R.invoked <= 1
     /\ R.invoked = Cardinality({k \in 1..L : R.caught[k].op})
                      + (IF R.pc \in {"calling", "returned"} THEN 1 ELSE 0)
     /\ \A k \in 1..L :
          (k < L \/ R.pc \in {"backoff", "calling", "returned"})
            => (R.caught[k].op /\ RetryableFailure(R.caught[k].err))
     /\ R.pc = "returned" => R.out.kind = "value"
     /\ R.pc = "threw" =>
          IF L = 0 THEN R.out.kind = "undefined" /\ R.maxRetries < 1
          ELSE R.out = [kind |-> "error", err |-> R.caught[L].err]

====
